---------------------------- MODULE Spec2Model ----------------------------
(***************************************************************************)
(* Verification model of the pack-scanning supervisor                     *)
(* (rodion-solovev-7/Camera_PackNotificator).                             *)
(*                                                                         *)
(* The repository holds several generations of the same subsystems.  Each  *)
(* generation a property is about is modelled, and a specification picks   *)
(* the generation at Init:                                                 *)
(*   SpecActuator    the reject gate: the asyncio _drop_pack coroutine of  *)
(*                   the shutter notifier / API wrapper ("notifier") and   *)
(*                   the PackBadCodes/OpenGate/CloseGate handlers of the   *)
(*                   event workers ("worker").                             *)
(*   SpecCorrelator  the result queues: process_latest_results of main.py  *)
(*                   ("main"), Interval2CamerasProcessingQueue             *)
(*                   ("interval"), InstantCameraProcessingQueue            *)
(*                   ("instant") and ResultValidator ("resultvalidator").  *)
(* Time is counted in whole seconds.                                       *)
(***************************************************************************)
EXTENDS Integers, Sequences, FiniteSets, TLC

VARIABLES
    now,                  \* the clock (time.monotonic() / datetime.now()), seconds
    impl,                 \* which generation of the subsystem is running
    is_shutter_open,      \* AbstractShutterNotifier._is_shutter_open
    shutter_close_time,   \* AbstractShutterNotifier._shutter_close_time
    drops,                \* the _drop_pack coroutines in flight
    evq,                  \* EventsProcessingQueue._queue of the event worker
    cmds,                 \* hardware commands issued so far (observer)
    bads,                 \* reception times of the bad packs so far (observer)
    results_by_process_id,\* main.py: one deque of TaskResult per camera
    is_paired,            \* main.py: ids of the results whose is_paired is set
    cam_queue,            \* the _queue of the queue classes
    expected_codes_count, \* the supervisor's current expected codes count
    workmode,             \* AsyncMainWorker._workmode
    cam_last,             \* per camera, finish time of its last pack
    next_id,              \* id of the next observation (observer)
    groups,               \* the groups taken off the buffers, with what each
                          \* produced (observer)
    pack_data,            \* the pack handed to a validator
    flags,                \* the policy flags of CodesCountValidator
    validated,            \* what CodesCountValidator.get_validated returned
    rv_validated,         \* what ResultValidator made of the pack
    pack_data_after,      \* the caller's pack_data once get_validated
                          \* returned
    codepairs_after,      \* pack.codepairs of the queued pack once
                          \* get_processed_latest returned
    handlers,             \* EventProcessor.handlers, in registration order
    event_queue,          \* EventsProcessingQueue._queue
    enqueued,             \* the events in the order they were queued or
                          \* fetched (observer)
    taken,                \* ids of the events handed to process_event, in
                          \* order (observer)
    invoked,              \* the handler calls made, in order (observer)
    faults,               \* the handler calls that raised (observer)
    lost,                 \* ids of the events fetched and never handed to
                          \* process_event (observer)
    loop_state,           \* "running", or how the loop was left
    next_ev,              \* id of the next event (observer)
    alive,                \* per camera process, Process.is_alive()
    sent_end,             \* per camera process, whether it has put its
                          \* EndScanning
    cam_events,           \* the multiprocessing queue from the cameras
    fetched,              \* the camera events a worker has read and not yet
                          \* processed
    sup_loop,             \* "running" or "stopped"
    ends_processed,       \* the processes whose EndScanning went through the
                          \* loop (observer)
    stamps,               \* per received pack, the count it was stamped with
                          \* and the last count the backend gave (observer)
    last_refresh,         \* the count of the last successful refresh, 0 if
                          \* none (observer)
    iter_modcounter,      \* RunnerWith2Cameras._iter_modcounter
    packs_sent,           \* packs the cameras have sent (observer)
    answers,              \* what the backend answered to each refresh, in
                          \* order (observer)
    refresh_state,        \* "running", or how the refresh loop was left
    iterations,           \* turns the supervisor loop has made (observer)
    record,               \* process_video: record / get_events_from_video: pack
    is_pack_visible_now,  \* whether the last frame showed a pack
    last_correct_barcode, \* the last barcode read from an earlier pack
    yielded,              \* the packs the camera has emitted (observer)
    frames                \* frames the camera has read (observer)

gateVars == <<is_shutter_open, shutter_close_time, drops, evq, cmds, bads>>

corrVars == <<results_by_process_id, is_paired, cam_queue, expected_codes_count,
              workmode, cam_last, next_id, groups>>

valVars == <<pack_data, flags, validated, rv_validated, pack_data_after,
             codepairs_after>>

kernVars == <<handlers, event_queue, enqueued, taken, invoked, faults, lost,
              loop_state, next_ev>>

supVars == <<alive, sent_end, cam_events, fetched, sup_loop, ends_processed,
             stamps, last_refresh, iter_modcounter, packs_sent>>

refVars == <<answers, refresh_state, iterations>>

camVars == <<record, is_pack_visible_now, last_correct_barcode, yielded, frames>>

vars == <<now, impl, gateVars, corrVars, valVars, kernVars, supVars, refVars,
          camVars>>

\* the kernel before anything was registered or queued
KernIdle ==
    /\ handlers = <<>>
    /\ event_queue = <<>>
    /\ enqueued = <<>>
    /\ taken = <<>>
    /\ invoked = <<>>
    /\ faults = {}
    /\ lost = {}
    /\ loop_state = "running"
    /\ next_ev = 1

\* the supervisor before any camera process was made
SupIdle ==
    /\ alive = <<>>
    /\ sent_end = <<>>
    /\ cam_events = <<>>
    /\ fetched = <<>>
    /\ sup_loop = "running"
    /\ ends_processed = {}
    /\ stamps = <<>>
    /\ last_refresh = 0
    /\ iter_modcounter = 0
    /\ packs_sent = 0

\* no refresh made yet
RefIdle ==
    /\ answers = <<>>
    /\ refresh_state = "running"
    /\ iterations = 0

\* CameraPackResult() / empty_record
EmptyRecord == [qr_codes |-> <<>>, barcodes |-> <<>>]

\* the camera before its first frame
CamIdle ==
    /\ record = EmptyRecord
    /\ is_pack_visible_now = FALSE
    /\ last_correct_barcode = ""
    /\ yielded = <<>>
    /\ frames = 0

---------------------------------------------------------------------------
(* Bounds of the model *)

\* bad packs per run
MaxBad == 2
\* no bad pack is received after this time
MaxArrive == 8
\* seconds the worker loop may be late in handling a due event
MaxLate == 1

---------------------------------------------------------------------------
(* Program constants *)

\* AbstractShutterNotifier.__init__ wait_before_sec
WAIT_BEFORE_SEC == 8
\* AbstractShutterNotifier.__init__ wait_open_sec
WAIT_OPEN_SEC == 25
\* SingleCameraWorker._process_PackBadCodes: open_time = now + 2
GATE_OPEN_AFTER_SEC == 2
\* SingleCameraWorker._process_PackBadCodes: close_time = now + 16
GATE_CLOSE_AFTER_SEC == 16

---------------------------------------------------------------------------
(* Helpers *)

\* the outputs of the validators before they are handed a pack
NotValidated ==
    [QRCODE |-> <<>>, EAN13 |-> <<>>, is_valid |-> FALSE, expected |-> 0,
     done |-> FALSE]

RvNotValidated == [kind |-> "none", codepairs |-> <<>>, done |-> FALSE]

Last(s) == s[Len(s)]

RemoveAt(s, i) == [j \in 1..(Len(s) - 1) |-> IF j < i THEN s[j] ELSE s[j + 1]]

SeqMax(s) == CHOOSE m \in {s[i] : i \in 1..Len(s)} : \A i \in 1..Len(s) : s[i] <= m

\* a hardware command as the observer records it: what, when, and how many
\* bad packs had been received by then
Cmd(c) == [cmd |-> c, at |-> now, nbads |-> Len(bads)]

---------------------------------------------------------------------------
(* The reject gate, generation "notifier": _drop_pack *)

\* the close time without the delay before opening
NewCloseTimeNoBefore(t) == t + WAIT_OPEN_SEC

\* awake_time = WAIT_BEFORE + WAIT_OPEN; close_time = monotonic() + awake_time
NewCloseTime(t) == t + WAIT_BEFORE_SEC + WAIT_OPEN_SEC

\* the close check without its 1e-3 tolerance
ClosingDueStrict(t, closeTime) == t > closeTime

\* time.monotonic() > self._shutter_close_time - 1e-3, on whole seconds
ClosingDue(t, closeTime) == t >= closeTime

\* notify_about_bad_pack -> _drop_pack up to its first await:
\* the close time is overwritten and the coroutine sleeps WAIT_BEFORE
NotifyBadPack ==
    /\ impl = "notifier"
    /\ Len(bads) < MaxBad
    /\ now <= MaxArrive
    /\ shutter_close_time' = NewCloseTime(now)
    /\ drops' = Append(drops, [pc |-> "before", wake |-> now + WAIT_BEFORE_SEC])
    /\ bads' = Append(bads, now)
    /\ UNCHANGED <<now, impl, camVars, is_shutter_open, evq, cmds, corrVars, valVars, kernVars, supVars, refVars>>

\* a command whose failure is not caught
shutter_command_raising(fails) == IF fails THEN "raised" ELSE "sent"

\* Shutter.open / Shutter.close, _send_shutter_open / _send_shutter_close,
\* send_shutter_down / send_shutter_up: "except Exception" logs the failure
\* of the SNMP request and the call returns
shutter_command(fails) == IF fails THEN "logged" ELSE "sent"

\* the failures logged so far, after command c was sent
LoggedFaults(sent, c) ==
    IF sent = "logged" THEN faults \cup {[cmd |-> c, at |-> now]} ELSE faults

\* the failures that left the command as an exception
EscapedFaults(sent, c) ==
    IF sent = "raised" THEN lost \cup {[cmd |-> c, at |-> now]} ELSE lost

\* the generations that run _drop_pack: the notifier, called from
\* process_video without waiting for it, and the API wrapper, awaited by
\* AsyncMainWorker
DropImpls == {"notifier", "asyncworker"}

\* _drop_pack opening without a look at the flag
DropOpenAlways(i) ==
    /\ impl \in DropImpls
    /\ drops[i].pc = "before"
    /\ now >= drops[i].wake
    /\ is_shutter_open' = TRUE
    /\ cmds' = Append(cmds, Cmd("open"))
    /\ drops' = [drops EXCEPT ![i] = [pc |-> "opened", wake |-> now + WAIT_OPEN_SEC]]
    /\ UNCHANGED <<now, impl, camVars, shutter_close_time, evq, bads, corrVars, valVars, kernVars, supVars, refVars>>

\* _drop_pack after the first sleep: open unless already open, sleep WAIT_OPEN
DropOpen(i) ==
    /\ impl \in DropImpls
    /\ drops[i].pc = "before"
    /\ now >= drops[i].wake
    /\ IF ~is_shutter_open
         THEN /\ is_shutter_open' = TRUE
              /\ cmds' = Append(cmds, Cmd("open"))
              /\ \E fails \in BOOLEAN :
                   LET sent == shutter_command(fails)
                   IN /\ faults' = LoggedFaults(sent, "open")
                      /\ lost' = EscapedFaults(sent, "open")
                      /\ drops' = IF sent = "raised" THEN RemoveAt(drops, i)
                                  ELSE [drops EXCEPT ![i] =
                                           [pc |-> "opened",
                                            wake |-> now + WAIT_OPEN_SEC]]
         ELSE /\ drops' = [drops EXCEPT ![i] =
                              [pc |-> "opened", wake |-> now + WAIT_OPEN_SEC]]
              /\ UNCHANGED <<is_shutter_open, cmds, faults, lost>>
    /\ UNCHANGED <<now, impl, camVars, shutter_close_time, evq, bads, corrVars, valVars,
                   supVars, refVars, handlers, event_queue, enqueued, taken, invoked, loop_state, next_ev>>

\* _drop_pack after the second sleep: close if open and the close time is due;
\* the coroutine ends
DropClose(i) ==
    /\ impl \in DropImpls
    /\ drops[i].pc = "opened"
    /\ now >= drops[i].wake
    /\ IF is_shutter_open /\ ClosingDue(now, shutter_close_time)
         THEN /\ is_shutter_open' = FALSE
              /\ cmds' = Append(cmds, Cmd("close"))
              /\ \E fails \in BOOLEAN :
                   LET sent == shutter_command(fails)
                   IN /\ faults' = LoggedFaults(sent, "close")
                      /\ lost' = EscapedFaults(sent, "close")
         ELSE UNCHANGED <<is_shutter_open, cmds, faults, lost>>
    /\ drops' = RemoveAt(drops, i)
    /\ UNCHANGED <<now, impl, camVars, shutter_close_time, evq, bads, corrVars, valVars,
                   supVars, refVars, handlers, event_queue, enqueued, taken, invoked, loop_state, next_ev>>

\* asyncio wakes a sleeping coroutine when its deadline is reached: the clock
\* does not pass a deadline that is due
DropTick ==
    /\ impl = "notifier"
    /\ \A i \in 1..Len(drops) : drops[i].wake > now
    /\ now < MaxArrive \/ drops # <<>>
    /\ now' = now + 1
    /\ UNCHANGED <<impl, camVars, is_shutter_open, shutter_close_time, drops, evq, cmds, bads, corrVars, valVars, kernVars, supVars, refVars>>

---------------------------------------------------------------------------
(* The reject gate, generation "worker": the event worker's handlers *)

\* time of a PackBadCodes: when it was appended (the event itself carries none)
PackBadCodesEv(t) == [kind |-> "PackBadCodes", time |-> t]
OpenGateEv(t) == [kind |-> "OpenGate", time |-> t]
CloseGateEv(t) == [kind |-> "CloseGate", time |-> t]

NumPackBad(q) == Cardinality({i \in 1..Len(q) : q[i].kind = "PackBadCodes"})

\* get_processed_latest returned a PackBadCodes: add_event appends it
EmitPackBadCodes ==
    /\ impl = "worker"
    /\ Len(bads) + NumPackBad(evq) < MaxBad
    /\ now <= MaxArrive
    /\ evq' = Append(evq, PackBadCodesEv(now))
    /\ UNCHANGED <<now, impl, camVars, is_shutter_open, shutter_close_time, drops, cmds, bads, corrVars, valVars, kernVars, supVars, refVars>>

\* _process_PackBadCodes: the events the handler returns
process_PackBadCodes(t) ==
    <<OpenGateEv(t + GATE_OPEN_AFTER_SEC), CloseGateEv(t + GATE_CLOSE_AFTER_SEC)>>

\* process_latest on a PackBadCodes
ProcessPackBadCodes ==
    /\ impl = "worker"
    /\ evq # <<>>
    /\ Head(evq).kind = "PackBadCodes"
    /\ evq' = Tail(evq) \o process_PackBadCodes(now)
    /\ bads' = Append(bads, now)
    /\ UNCHANGED <<now, impl, camVars, is_shutter_open, shutter_close_time, drops, cmds, corrVars, valVars, kernVars, supVars, refVars>>

\* process_latest on an OpenGate: _process_OpenGate
ProcessOpenGate ==
    /\ impl = "worker"
    /\ evq # <<>>
    /\ Head(evq).kind = "OpenGate"
    /\ IF now < Head(evq).time
         THEN /\ evq' = Append(Tail(evq), Head(evq))
              /\ UNCHANGED <<cmds, faults, lost>>
         ELSE /\ evq' = Tail(evq)
              /\ cmds' = Append(cmds, Cmd("open"))
              /\ \E fails \in BOOLEAN :
                   LET sent == shutter_command(fails)
                   IN /\ faults' = LoggedFaults(sent, "open")
                      /\ lost' = EscapedFaults(sent, "open")
    /\ UNCHANGED <<now, impl, camVars, is_shutter_open, shutter_close_time, drops, bads,
                   corrVars, valVars, supVars, refVars, handlers, event_queue, enqueued, taken, invoked, loop_state, next_ev>>

\* process_latest on a CloseGate: _process_CloseGate
ProcessCloseGate ==
    /\ impl = "worker"
    /\ evq # <<>>
    /\ Head(evq).kind = "CloseGate"
    /\ IF now < Head(evq).time
         THEN /\ evq' = Append(Tail(evq), Head(evq))
              /\ UNCHANGED <<cmds, faults, lost>>
         ELSE /\ evq' = Tail(evq)
              /\ cmds' = Append(cmds, Cmd("close"))
              /\ \E fails \in BOOLEAN :
                   LET sent == shutter_command(fails)
                   IN /\ faults' = LoggedFaults(sent, "close")
                      /\ lost' = EscapedFaults(sent, "close")
    /\ UNCHANGED <<now, impl, camVars, is_shutter_open, shutter_close_time, drops, bads,
                   corrVars, valVars, supVars, refVars, handlers, event_queue, enqueued, taken, invoked, loop_state, next_ev>>

\* time passes between two handler calls (Wait sleeps, the queue read blocks)
WorkerTick ==
    /\ impl = "worker"
    /\ now < MaxArrive \/ \E i \in 1..Len(evq) : evq[i].time > now
    /\ \A i \in 1..Len(evq) : now < evq[i].time + MaxLate
    /\ now' = now + 1
    /\ UNCHANGED <<impl, camVars, is_shutter_open, shutter_close_time, drops, evq, cmds, bads, corrVars, valVars, kernVars, supVars, refVars>>

---------------------------------------------------------------------------
(* Specification of the reject gate *)

InitActuator ==
    /\ now = 0
    /\ impl \in {"notifier", "worker"}
    /\ is_shutter_open = FALSE
    /\ shutter_close_time = 0
    /\ drops = <<>>
    /\ evq = <<>>
    /\ cmds = <<>>
    /\ bads = <<>>
    /\ results_by_process_id = <<<<>>, <<>>>>
    /\ is_paired = {}
    /\ cam_queue = <<>>
    /\ expected_codes_count = 0
    /\ workmode = "auto"
    /\ cam_last = <<0, 0>>
    /\ next_id = 1
    /\ groups = <<>>
    /\ pack_data = [QRCODE |-> <<>>, EAN13 |-> <<>>, expected |-> 0]
    /\ flags = [reject_if_less |-> TRUE, reject_if_more |-> TRUE,
                replace_if_reject |-> TRUE]
    /\ validated = NotValidated
    /\ rv_validated = RvNotValidated
    /\ pack_data_after = pack_data
    /\ codepairs_after = <<>>
    /\ KernIdle
    /\ SupIdle
    /\ RefIdle
    /\ CamIdle

DropStep == \E i \in 1..Len(drops) : DropOpen(i) \/ DropClose(i)

NextActuator ==
    \/ NotifyBadPack
    \/ DropStep
    \/ DropTick
    \/ EmitPackBadCodes
    \/ ProcessPackBadCodes
    \/ ProcessOpenGate
    \/ ProcessCloseGate
    \/ WorkerTick

SpecActuator == InitActuator /\ [][NextActuator]_vars

\* the asyncio loop keeps running its coroutines, the worker loop keeps
\* processing its queue, and time passes
FairActuator ==
    /\ SpecActuator
    /\ WF_vars(DropStep)
    /\ WF_vars(DropTick)
    /\ WF_vars(ProcessPackBadCodes \/ ProcessOpenGate \/ ProcessCloseGate)
    /\ WF_vars(WorkerTick)

---------------------------------------------------------------------------
(* Properties of the reject gate *)

\* BEFORE_DELAY + OPEN_DURATION of the running generation
CloseDelay ==
    IF impl = "notifier" THEN WAIT_BEFORE_SEC + WAIT_OPEN_SEC ELSE GATE_CLOSE_AFTER_SEC

NumCmd(c) == Cardinality({k \in 1..Len(cmds) : cmds[k].cmd = c})

\* nothing of a gate sequence is pending any more
GateQuiet == drops = <<>> /\ evq = <<>>

\* every bad pack but the first was received while the gate sequence of the
\* one before it was still running (gate PendingOpen or Open)
GateBurst ==
    /\ Len(bads) >= 2
    /\ \A j \in 1..(Len(bads) - 1) : bads[j + 1] < bads[j] + CloseDelay

\* C1: no close command is issued earlier than the latest scheduled close time:
\* at a close command at time T every bad pack received by then, at t_i,
\* has T >= t_i + BEFORE_DELAY + OPEN_DURATION.
C1_CloseNotBeforeLatest ==
    \A k \in 1..Len(cmds) :
        cmds[k].cmd = "close" =>
            \A j \in 1..cmds[k].nbads : cmds[k].at >= bads[j] + CloseDelay

\* C1 for the _drop_pack generation alone
C1_NotifierCloseNotBeforeLatest == impl = "notifier" => C1_CloseNotBeforeLatest

\* C2: a burst of bad packs, each received while the gate is PendingOpen or Open,
\* gets exactly one open and one close command, the close BEFORE_DELAY +
\* OPEN_DURATION after the last bad pack of the burst.
C2_BurstOneCycle ==
    (GateQuiet /\ GateBurst) =>
        /\ NumCmd("open") = 1
        /\ NumCmd("close") = 1
        /\ Last(cmds).cmd = "close"
        /\ Last(cmds).at = Last(bads) + CloseDelay

\* C2 for the _drop_pack generation alone
C2_NotifierBurstOneCycle == impl = "notifier" => C2_BurstOneCycle

GateCommandedOpen == cmds # <<>> /\ Last(cmds).cmd = "open"

GateCommandedClosed == cmds # <<>> /\ Last(cmds).cmd = "close" /\ ~is_shutter_open

\* C3: once the gate was opened, a close command is eventually issued and the
\* actuator is Closed again (is_open = false): the gate is never left open.
C3_GateEventuallyClosed == GateCommandedOpen ~> GateCommandedClosed

\* C3 witness: two overlapping gate sequences have run and the gate is closed
C3_Witness == GateQuiet /\ GateBurst /\ GateCommandedClosed

\* C4: the scheduled close time never decreases, and after any sequence of bad
\* packs it is the maximum of the close times computed for each of them
\* (reception time + BEFORE_DELAY + OPEN_DURATION).
C4_CloseTimeIsMax ==
    /\ [](impl = "notifier" /\ bads # <<>> =>
            shutter_close_time =
                SeqMax([j \in 1..Len(bads) |-> bads[j] + WAIT_BEFORE_SEC + WAIT_OPEN_SEC]))
    /\ [][shutter_close_time' >= shutter_close_time]_vars

\* C4 witness: a second bad pack, later than the first, has moved the close time
C4_Witness ==
    /\ impl = "notifier"
    /\ Len(bads) = 2
    /\ bads[2] > bads[1]
    /\ shutter_close_time = bads[2] + WAIT_BEFORE_SEC + WAIT_OPEN_SEC

(***************************************************************************)
(* The result queues.  A camera process stamps finish_time when it ends a  *)
(* pack, so the finish times of one camera never decrease.  Codes are      *)
(* strings; every observation reads codes of its own, so that the codes of *)
(* an outcome name the observations they came from.                        *)
(***************************************************************************)

\* Bounds of the correlator model.
MaxObs == 3

MaxObsTime == 4

\* src/main.py:129 and src/BarcodeQR_CamScanner/packs_processing.py:45
RESULT_TIMEOUT_SEC == 20

\* src/main.py:123
MAX_CAMERAS_DIFF_SEC == 4

\* the initial _expected_codes_count of the event workers
WORKER_EXPECTED_CODES_COUNT == 2

\* the expected_codes_count main.py starts with
MAIN_EXPECTED_CODES_COUNT == 1

QrNames ==
    << <<"qr1a", "qr1b">>, <<"qr2a", "qr2b">>, <<"qr3a", "qr3b">>,
       <<"qr4a", "qr4b">>, <<"qr5a", "qr5b">> >>

BarNames ==
    << <<"bar1a", "bar1b">>, <<"bar2a", "bar2b">>, <<"bar3a", "bar3b">>,
       <<"bar4a", "bar4b">>, <<"bar5a", "bar5b">> >>

\* <<number of QR codes, number of barcodes>> a camera may read from a pack
CodeCounts == {<<0, 0>>, <<1, 0>>, <<1, 1>>, <<2, 2>>}

\* lengths of a pack's passage in front of a camera
PackDurations == {0, 2}

\* values the server may answer for the expected codes count
ExpectedCounts == {2}

Abs(x) == IF x < 0 THEN -x ELSE x

Max(a, b) == IF a >= b THEN a ELSE b

RECURSIVE Flatten(_)
Flatten(ss) == IF ss = <<>> THEN <<>> ELSE Head(ss) \o Flatten(Tail(ss))

QrOf(rs) == Flatten([i \in 1..Len(rs) |-> rs[i].qr_codes])

BarOf(rs) == Flatten([i \in 1..Len(rs) |-> rs[i].barcodes])

Ids(rs) == {rs[i].id : i \in 1..Len(rs)}

Members(rs) == {rs[i] : i \in 1..Len(rs)}

HasQr(r) == Len(r.qr_codes) # 0

\* TaskResult (src/events.py) / CameraPackResult (models.py)
Observation(id, w, st, ft, cc, exp, mode) ==
    [id |-> id, worker_id |-> w, start_time |-> st, finish_time |-> ft,
     qr_codes |-> SubSeq(QrNames[id], 1, cc[1]),
     barcodes |-> SubSeq(BarNames[id], 1, cc[2]),
     expected_codes_count |-> exp, workmode |-> mode]

\* what the removal of one group from the buffers produced
Group(rs, ready, kind, qr, bar, warns) ==
    [members |-> Members(rs), ready |-> ready, kind |-> kind,
     qr |-> qr, bar |-> bar, warns |-> warns]

RECURSIVE InsertByFinish(_, _)
InsertByFinish(s, r) ==
    IF s = <<>> THEN <<r>>
    ELSE IF Last(s).finish_time <= r.finish_time THEN Append(s, r)
    ELSE Append(InsertByFinish(SubSeq(s, 1, Len(s) - 1), r), Last(s))

RECURSIVE SortedByFinish(_)
SortedByFinish(s) ==
    IF s = <<>> THEN <<>>
    ELSE InsertByFinish(SortedByFinish(SubSeq(s, 1, Len(s) - 1)), Last(s))

\* main.py: is_relevant_result
is_relevant_result(overdue, r, paired) ==
    /\ Abs(overdue.finish_time - r.finish_time) < MAX_CAMERAS_DIFF_SEC
    /\ r.id \notin paired

RECURSIVE TakeWhileRelevant(_, _, _)
TakeWhileRelevant(buf, overdue, paired) ==
    IF buf = <<>> \/ ~is_relevant_result(overdue, Head(buf), paired) THEN <<>>
    ELSE <<Head(buf)>> \o TakeWhileRelevant(Tail(buf), overdue, paired)

MainCodesFirstSide(with1, with2) ==
    IF with1 # <<>> THEN [qr |-> QrOf(with1), bar |-> BarOf(with1)]
    ELSE [qr |-> QrOf(with2), bar |-> BarOf(with2)]

\* main.py: the codes handed to notify_about_packdata: those of the results
\* with codes of the overdue result's camera, then those of the other camera
MainCodes(with1, with2) ==
    [qr |-> QrOf(with1 \o with2), bar |-> BarOf(with1 \o with2)]

NoCodesNever(with1, with2) == FALSE

\* main.py: "len(results_with_codes1) == 0 and len(results_with_codes2) == 0"
NoCodes(with1, with2) == with1 = <<>> /\ with2 = <<>>

MarkPairedNone(paired, members) == paired

\* main.py: "for result in relevant_results1 + relevant_results2:
\*               result.is_paired = True"
MarkPaired(paired, members) == paired \cup {m.id : m \in members}

\* main.py: the body of the loop of process_latest_results for one unpaired
\* overdue result
MainGroup(overdue, results1, results2, paired) ==
    LET relevant_results1 == TakeWhileRelevant(results1, overdue, paired)
        relevant_results2 == TakeWhileRelevant(results2, overdue, paired)
        results_with_codes1 == SelectSeq(relevant_results1, HasQr)
        results_with_codes2 == SelectSeq(relevant_results2, HasQr)
        codes == MainCodes(results_with_codes1, results_with_codes2)
        warns ==
            (IF relevant_results2 = <<>> THEN {"no_pair"} ELSE {})
            \cup (IF results_with_codes1 # <<>> /\ results_with_codes2 # <<>>
                  THEN {"both_sides"} ELSE {})
            \cup (IF NoCodes(results_with_codes1, results_with_codes2)
                  THEN {"no_codes"}
                  ELSE IF overdue.expected_codes_count # Len(codes.qr)
                       THEN {"count"} ELSE {})
    IN IF NoCodes(results_with_codes1, results_with_codes2)
       THEN Group(relevant_results1 \o relevant_results2, overdue,
                  "bad", <<>>, <<>>, warns)
       ELSE Group(relevant_results1 \o relevant_results2, overdue,
                  "good", codes.qr, codes.bar, warns)

pop_newest(buf) == SubSeq(buf, 1, Len(buf) - 1)

\* main.py: "results1.popleft()"
popleft(buf) == Tail(buf)

RECURSIVE MainLoop(_, _, _, _)
MainLoop(snap, k, st, t) ==
    IF k > Len(snap) \/ t - snap[k].finish_time < RESULT_TIMEOUT_SEC THEN st
    ELSE
        LET overdue == snap[k]
            w1 == overdue.worker_id + 1
            w2 == ((overdue.worker_id + 1) % 2) + 1
            results1 == st.bufs[w1]
            results2 == st.bufs[w2]
            g == MainGroup(overdue, results1, results2, st.paired)
        IN IF overdue.id \in st.paired
           THEN MainLoop(snap, k + 1,
                         [st EXCEPT !.bufs[w1] = popleft(results1)], t)
           ELSE MainLoop(snap, k + 1,
                         [bufs |-> [st.bufs EXCEPT ![w1] = popleft(results1)],
                          paired |-> MarkPaired(st.paired, g.members),
                          out |-> Append(st.out, g)], t)

\* main.py: process_latest_results
process_latest_results(bufs, paired, t) ==
    MainLoop(SortedByFinish(bufs[1] \o bufs[2]), 1,
             [bufs |-> bufs, paired |-> paired, out |-> <<>>], t)

\* packs_processing.py: Interval2CamerasProcessingQueue._extract_oldest_group,
\* as the number of packs it pops
RECURSIVE OldestGroupLen(_, _, _)
OldestGroupLen(packs, n, bound) ==
    IF n < Len(packs) /\ packs[n + 1].start_time <= bound
    THEN OldestGroupLen(packs, n + 1, Max(bound, packs[n + 1].finish_time))
    ELSE n

extract_oldest_group(packs) ==
    IF packs = <<>> THEN <<>>
    ELSE SubSeq(packs, 1, OldestGroupLen(packs, 0, packs[1].finish_time))

OnWorker0(p) == p.worker_id = 0

OnWorker1(p) == p.worker_id = 1

PadWithLast(barcodes, missed) ==
    barcodes \o [i \in 1..missed |-> Last(barcodes)]

\* Interval2CamerasProcessingQueue.get_processed_latest: the body of the
\* loop for one extracted group.  [barcodes[-1]] raises IndexError when the
\* group has QR codes and no barcode: kind "raised".
IntervalGroup(packs_group) ==
    LET packs0 == SelectSeq(packs_group, OnWorker0)
        packs1 == SelectSeq(packs_group, OnWorker1)
        qr_codes0 == QrOf(packs0)
        qr_codes1 == QrOf(packs1)
        barcodes == BarOf(packs0) \o BarOf(packs1)
        qr_codes == qr_codes0 \o qr_codes1
        missed_barcodes_count == Len(qr_codes) - Len(barcodes)
        expected == packs_group[1].expected_codes_count
        w0 == (IF expected # Last(packs_group).expected_codes_count
               THEN {"expected_differs"} ELSE {})
              \cup (IF packs0 = <<>> \/ packs1 = <<>> THEN {"no_pair"} ELSE {})
    IN IF qr_codes0 = <<>> /\ qr_codes1 = <<>>
       THEN Group(packs_group, packs_group[1], "bad", <<>>, <<>>, w0)
       ELSE IF qr_codes0 # <<>> /\ qr_codes1 # <<>>
       THEN Group(packs_group, packs_group[1], "bad", <<>>, <<>>,
                  w0 \cup {"both_sides"})
       ELSE IF barcodes = <<>>
       THEN Group(packs_group, packs_group[1], "raised", <<>>, <<>>, w0)
       ELSE IF Len(qr_codes) # expected
       THEN Group(packs_group, packs_group[1], "bad", <<>>, <<>>,
                  w0 \cup {"count"})
       ELSE Group(packs_group, packs_group[1], "good", qr_codes,
                  PadWithLast(barcodes, missed_barcodes_count), w0)

\* "now - finish_time > RESULT_TIMEOUT_TIME"
IntervalOverdue(t, finish) == t - finish > RESULT_TIMEOUT_SEC

RECURSIVE IntervalLoop(_, _, _)
IntervalLoop(queue, out, t) ==
    IF queue = <<>> \/ ~IntervalOverdue(t, queue[1].finish_time)
    THEN [queue |-> queue, out |-> out]
    ELSE LET packs_group == extract_oldest_group(queue)
             rest == SubSeq(queue, Len(packs_group) + 1, Len(queue))
             g == IntervalGroup(packs_group)
         IN IF g.kind = "raised"
            THEN [queue |-> rest, out |-> Append(out, g)]
            ELSE IntervalLoop(rest, Append(out, g), t)

\* Interval2CamerasProcessingQueue.get_processed_latest, consumed by the
\* event queue one yielded event at a time
interval_get_processed_latest(queue, t) == IntervalLoop(queue, <<>>, t)

InstantPackAnyCount(pack) ==
    IF pack.qr_codes = <<>> \/ pack.barcodes = <<>>
    THEN Group(<<pack>>, pack, "bad", <<>>, <<>>, {"no_codes"})
    ELSE Group(<<pack>>, pack, "good", pack.qr_codes, pack.barcodes, {})

\* InstantCameraProcessingQueue.get_processed_latest: one pack
InstantPack(pack) ==
    LET qr_codes == pack.qr_codes
        barcodes == pack.barcodes
        missed_barcodes_count == Len(qr_codes) - Len(barcodes)
    IN IF qr_codes = <<>>
       THEN Group(<<pack>>, pack, "bad", <<>>, <<>>, {"no_codes"})
       ELSE IF barcodes = <<>>
       THEN Group(<<pack>>, pack, "bad", <<>>, <<>>, {"no_barcodes"})
       ELSE IF Len(qr_codes) # pack.expected_codes_count
       THEN Group(<<pack>>, pack, "bad", <<>>, <<>>, {"count"})
       ELSE Group(<<pack>>, pack, "good", qr_codes,
                  PadWithLast(barcodes, missed_barcodes_count), {})

InstantKeepQueue(queue) ==
    [queue |-> queue, out |-> [i \in 1..Len(queue) |-> InstantPack(queue[i])]]

\* InstantCameraProcessingQueue.get_processed_latest
instant_get_processed_latest(queue) ==
    [queue |-> <<>>, out |-> [i \in 1..Len(queue) |-> InstantPack(queue[i])]]

\* codes_consolidation.py: ResultValidator._blacklisted_qrs
BLACKLISTED_QRS == {"xps.tn.ru"}

NotBlacklistedPair(d) == d.QR \notin BLACKLISTED_QRS

EmptyPair == [QR |-> "", BARCODE |-> "0000000000000"]

\* ResultValidator: "if real_count >= expected_count"
RvGood(real_count, expected_count) == real_count >= expected_count

\* ResultValidator.get_processed_latest: one pack in 'auto' work mode
ResultValidatorPack(codepairs, expected_count) ==
    LET kept == SelectSeq(codepairs, NotBlacklistedPair)
        real_count == Len(kept)
        missed_qrcodes_count == Max(0, expected_count - real_count)
    IN IF RvGood(real_count, expected_count)
       THEN [kind |-> "good", codepairs |-> kept]
       ELSE [kind |-> "bad",
             codepairs |-> kept \o [i \in 1..missed_qrcodes_count |-> EmptyPair]]

CodePairsOf(pack) ==
    [i \in 1..Len(pack.qr_codes) |->
        [QR |-> pack.qr_codes[i], BARCODE |-> pack.barcodes[i]]]

\* RvPack that validates the pack whatever its work mode is
RvPackAnyMode(pack) ==
    LET v == ResultValidatorPack(CodePairsOf(pack), pack.expected_codes_count)
    IN Group(<<pack>>, pack, v.kind,
             [i \in 1..Len(v.codepairs) |-> v.codepairs[i].QR],
             [i \in 1..Len(v.codepairs) |-> v.codepairs[i].BARCODE], {})

\* ResultValidator.get_processed_latest: one pack of the queue; a pack
\* stamped with another work mode than 'auto' is logged and skipped
RvPack(pack) ==
    LET v == ResultValidatorPack(CodePairsOf(pack), pack.expected_codes_count)
    IN IF pack.workmode # "auto"
       THEN Group(<<pack>>, pack, "ignored", <<>>, <<>>, {"workmode"})
       ELSE Group(<<pack>>, pack, v.kind,
                  [i \in 1..Len(v.codepairs) |-> v.codepairs[i].QR],
                  [i \in 1..Len(v.codepairs) |-> v.codepairs[i].BARCODE], {})

\* ResultValidator.get_processed_latest
rv_get_processed_latest(queue) ==
    [queue |-> <<>>, out |-> [i \in 1..Len(queue) |-> RvPack(queue[i])]]

(***************************************************************************)
(* One drain of the buffers at time t, for the generation at hand.         *)
(***************************************************************************)
Drain(bufs, paired, queue, t) ==
    IF impl = "main"
    THEN LET r == process_latest_results(bufs, paired, t)
         IN [bufs |-> r.bufs, paired |-> r.paired, queue |-> queue,
             out |-> r.out]
    ELSE LET r == IF impl = "interval" THEN interval_get_processed_latest(queue, t)
                  ELSE IF impl = "instant" THEN instant_get_processed_latest(queue)
                  ELSE rv_get_processed_latest(queue)
         IN [bufs |-> bufs, paired |-> paired, queue |-> r.queue,
             out |-> r.out]

CorrImpls == {"main", "interval", "instant", "resultvalidator"}

TwoCameraImpls == {"main", "interval"}

\* the expected codes count stamped on a received result: the event workers
\* stamp _expected_codes_count, which their refresh never writes
StampedExpected ==
    IF impl \in {"interval", "instant"} THEN WORKER_EXPECTED_CODES_COUNT
    ELSE expected_codes_count

Enqueued(obs) ==
    IF impl = "main"
    THEN [bufs |-> [results_by_process_id EXCEPT
                        ![obs.worker_id + 1] = Append(@, obs)],
          queue |-> cam_queue]
    ELSE [bufs |-> results_by_process_id, queue |-> Append(cam_queue, obs)]

Pending == results_by_process_id # <<<<>>, <<>>>> \/ cam_queue # <<>>

PendingResults ==
    Members(results_by_process_id[1]) \cup Members(results_by_process_id[2])
        \cup Members(cam_queue)

\* main.py: "if current_time - result.finish_time < RESULT_TIMEOUT_TIME: break"
MainOverdue(t, finish) == ~(t - finish < RESULT_TIMEOUT_SEC)

Overdue(t, finish) ==
    IF impl = "interval" THEN IntervalOverdue(t, finish)
    ELSE MainOverdue(t, finish)

\* a buffered result becomes overdue at instant t
Deadline(t) ==
    \E r \in PendingResults :
        Overdue(t, r.finish_time) /\ ~Overdue(t - 1, r.finish_time)

\* the latest instant at which the last result can become overdue
Horizon == MaxObsTime + MaxObs * (RESULT_TIMEOUT_SEC + 1)

\* cameras deliver results during the first MaxObsTime seconds, and later
\* at the instants when a buffered result is overdue
MayReceive ==
    \/ now <= MaxObsTime
    \/ \E r \in PendingResults : Overdue(now, r.finish_time)

\* the is_paired flag lives on the result object: it goes with the object
\* when the object leaves its buffer
StillBuffered(paired, bufs) == paired \cap (Ids(bufs[1]) \cup Ids(bufs[2]))

\* a camera result is received: it is stamped and enqueued, and the buffers
\* are drained (process_taskresult + process_latest_results;
\* _process_CameraPackResult; _endless_handle_queue_events)
ReceiveResult ==
    /\ impl \in CorrImpls
    /\ next_id <= MaxObs
    /\ MayReceive
    /\ \E w \in {0, 1}, cc \in CodeCounts, dur \in PackDurations :
         /\ impl \notin TwoCameraImpls => w = 0
         /\ impl # "interval" => dur = 0
         /\ impl = "resultvalidator" => cc[1] = cc[2]
         /\ LET obs == Observation(next_id, w,
                                   Max(now - dur, cam_last[w + 1]), now, cc,
                                   StampedExpected, workmode)
                e == Enqueued(obs)
                d == Drain(e.bufs, is_paired, e.queue, now)
            IN /\ results_by_process_id' = d.bufs
               /\ is_paired' = StillBuffered(d.paired, d.bufs)
               /\ cam_queue' = d.queue
               /\ groups' = groups \o d.out
               /\ cam_last' = [cam_last EXCEPT ![w + 1] = now]
    /\ next_id' = next_id + 1
    /\ UNCHANGED <<now, impl, camVars, gateVars, valVars, kernVars, supVars, refVars, expected_codes_count, workmode>>

\* the buffers are drained with no new result: another event of a camera in
\* main.py, the periodic read of SingleCameraWorker, an idle turn of
\* _endless_handle_queue_events
DrainOnly ==
    /\ impl \in {"main", "instant", "resultvalidator"}
    /\ LET d == Drain(results_by_process_id, is_paired, cam_queue, now)
       IN /\ results_by_process_id' = d.bufs
          /\ is_paired' = StillBuffered(d.paired, d.bufs)
          /\ cam_queue' = d.queue
          /\ groups' = groups \o d.out
    /\ UNCHANGED <<now, impl, camVars, gateVars, valVars, kernVars, supVars, refVars, expected_codes_count, workmode,
                   cam_last, next_id>>

\* the expected codes count is asked from the server; a failed request keeps
\* the previous value
RefreshExpected ==
    /\ impl \in {"main", "resultvalidator"}
    /\ \E n \in ExpectedCounts : expected_codes_count' = n
    /\ UNCHANGED <<now, impl, camVars, gateVars, valVars, kernVars, supVars, refVars, results_by_process_id, is_paired,
                   cam_queue, workmode, cam_last, next_id, groups>>

\* AsyncMainWorker._update_workmode
RefreshWorkmode ==
    /\ impl = "resultvalidator"
    /\ \E m \in {"auto", "manual"} : workmode' = m
    /\ UNCHANGED <<now, impl, camVars, gateVars, valVars, kernVars, supVars, refVars, results_by_process_id, is_paired,
                   cam_queue, expected_codes_count, cam_last, next_id, groups>>

\* time passes: second by second while cameras may still deliver results,
\* then up to the next instant at which a buffered result becomes overdue
\* (a drain in between finds nothing to do).  The clock starts with the
\* first result.
CorrTick ==
    /\ impl \in CorrImpls
    /\ next_id > 1
    /\ IF now < MaxObsTime /\ next_id <= MaxObs
       THEN now' = now + 1
       ELSE /\ \E t \in (now + 1)..Horizon : Deadline(t)
            /\ now' = CHOOSE t \in (now + 1)..Horizon :
                          Deadline(t) /\ \A u \in (now + 1)..(t - 1) : ~Deadline(u)
    /\ UNCHANGED <<impl, camVars, gateVars, corrVars, valVars, kernVars, supVars, refVars>>

InitCorrelator ==
    /\ now = 0
    /\ impl \in CorrImpls
    /\ is_shutter_open = FALSE
    /\ shutter_close_time = 0
    /\ drops = <<>>
    /\ evq = <<>>
    /\ cmds = <<>>
    /\ bads = <<>>
    /\ results_by_process_id = <<<<>>, <<>>>>
    /\ is_paired = {}
    /\ cam_queue = <<>>
    /\ expected_codes_count =
           IF impl = "main" THEN MAIN_EXPECTED_CODES_COUNT
           ELSE WORKER_EXPECTED_CODES_COUNT
    /\ workmode = "auto"
    /\ cam_last = <<0, 0>>
    /\ next_id = 1
    /\ groups = <<>>
    /\ pack_data = [QRCODE |-> <<>>, EAN13 |-> <<>>, expected |-> 0]
    /\ flags = [reject_if_less |-> TRUE, reject_if_more |-> TRUE,
                replace_if_reject |-> TRUE]
    /\ validated = NotValidated
    /\ rv_validated = RvNotValidated
    /\ pack_data_after = pack_data
    /\ codepairs_after = <<>>
    /\ KernIdle
    /\ SupIdle
    /\ RefIdle
    /\ CamIdle

NextCorrelator ==
    \/ ReceiveResult
    \/ DrainOnly
    \/ RefreshExpected
    \/ RefreshWorkmode
    \/ CorrTick

SpecCorrelator == InitCorrelator /\ [][NextCorrelator]_vars

(***************************************************************************)
(* Properties of the result queues.                                        *)
(***************************************************************************)
MemberIds(g) == {m.id : m \in g.members}

CodesOf(seq) == {seq[k] : k \in 1..Len(seq)}

RECURSIVE SortedMembers(_)
SortedMembers(S) ==
    IF S = {} THEN <<>>
    ELSE LET m == CHOOSE x \in S : \A y \in S : x.id <= y.id
         IN <<m>> \o SortedMembers(S \ {m})

\* the QR codes the members of group g read on camera w, in buffer order
SideQr(g, w) ==
    QrOf(SelectSeq(SortedMembers(g.members), LAMBDA m : m.worker_id = w))

SideBar(g, w) ==
    BarOf(SelectSeq(SortedMembers(g.members), LAMBDA m : m.worker_id = w))

OtherSide(w) == (w + 1) % 2

DualGroups == IF impl \in TwoCameraImpls THEN CodesOf(groups) ELSE {}

BothSidesHaveQr(g) == SideQr(g, 0) # <<>> /\ SideQr(g, 1) # <<>>

OneSideHasQr(g) == (SideQr(g, 0) # <<>>) # (SideQr(g, 1) # <<>>)

NoSideHasQr(g) == SideQr(g, 0) = <<>> /\ SideQr(g, 1) = <<>>

\* the camera whose result of the group was buffered first
FirstPopulatedSide(g) ==
    (CHOOSE m \in g.members :
        HasQr(m) /\ \A o \in g.members : HasQr(o) => m.id <= o.id).worker_id

\* C5: an observation never participates in two correlation groups: the
\* groups taken off the buffers are pairwise disjoint, and the codes of an
\* outcome are codes read by the members of its own group (or the empty
\* placeholder), so no observation gives its codes to two outcomes.
C5_NoObservationInTwoGroups ==
    /\ \A i, j \in 1..Len(groups) :
          i < j => MemberIds(groups[i]) \cap MemberIds(groups[j]) = {}
    /\ \A i \in 1..Len(groups) :
          CodesOf(groups[i].qr) \subseteq
              UNION {CodesOf(m.qr_codes) : m \in groups[i].members} \cup {""}

C5_Witness ==
    /\ impl = "main"
    /\ Len(groups) >= 2
    /\ \E i \in 1..Len(groups) :
          /\ \E m, o \in groups[i].members : m.worker_id # o.worker_id
          /\ groups[i].kind = "good"

\* the instants at which a second drain can find something new: at once,
\* and whenever a result left in the buffers becomes overdue
SecondDrainTimes(d) ==
    {now} \cup
    {t \in (now + 1)..Horizon :
        \E r \in Members(d.bufs[1]) \cup Members(d.bufs[2]) \cup Members(d.queue) :
            Overdue(t, r.finish_time) /\ ~Overdue(t - 1, r.finish_time)}

\* C6: draining is idempotent: in every reachable state, when the buffers
\* are drained and then drained again with nothing enqueued in between (at
\* once or at a later instant), the second drain emits no outcome for an
\* observation that is marked paired or that an earlier drain has put in a
\* group.
C6_DrainIdempotent ==
    impl \in CorrImpls =>
        LET d1 == Drain(results_by_process_id, is_paired, cam_queue, now)
            done == d1.paired
                    \cup UNION {MemberIds(g) : g \in CodesOf(d1.out)}
                    \cup UNION {MemberIds(g) : g \in CodesOf(groups)}
        IN \A t \in SecondDrainTimes(d1) :
              LET d2 == Drain(d1.bufs, d1.paired, d1.queue, t)
              IN \A k \in 1..Len(d2.out) : MemberIds(d2.out[k]) \cap done = {}

C6_Witness ==
    /\ impl = "main"
    /\ groups # <<>>
    /\ \E r \in PendingResults : r.id \in is_paired
    /\ \E r \in PendingResults : r.id \notin is_paired

\* C8 (as stated): when exactly one side of a two-camera group carries QR
\* codes, the outcome holds that side's codes only, and it is good exactly
\* when their number equals the expected count of the ready result, bad
\* otherwise.
C8_OneSideValidated ==
    \A g \in DualGroups :
        OneSideHasQr(g) =>
            LET side == IF SideQr(g, 0) # <<>> THEN 0 ELSE 1
            IN /\ g.kind \in {"good", "bad"}
               /\ g.kind = "good" <=>
                      Len(SideQr(g, side)) = g.ready.expected_codes_count
               /\ g.kind = "good" => g.qr = SideQr(g, side)
               /\ g.kind = "bad" => g.qr = <<>>

\* C9 (as stated): when both sides of a two-camera group carry QR codes, a
\* warning is logged and the outcome uses the codes of the first-populated
\* side only; the group is not rejected.
C9_FirstSideWins ==
    \A g \in DualGroups :
        BothSidesHaveQr(g) =>
            /\ "both_sides" \in g.warns
            /\ g.kind = "good"
            /\ g.qr = SideQr(g, FirstPopulatedSide(g))

\* C9 (amended): when both sides of a two-camera group carry QR codes, a
\* warning is logged; process_latest_results of main.py then sends the codes
\* of both sides in one notification, those of the overdue result's camera
\* first, and Interval2CamerasProcessingQueue rejects the group with a bad
\* outcome that carries no code.
C9_BothSidesMixedOrRejected ==
    \A g \in DualGroups :
        BothSidesHaveQr(g) =>
            /\ "both_sides" \in g.warns
            /\ impl = "main" =>
                  /\ g.kind = "good"
                  /\ g.qr = SideQr(g, g.ready.worker_id)
                             \o SideQr(g, OtherSide(g.ready.worker_id))
                  /\ g.bar = SideBar(g, g.ready.worker_id)
                              \o SideBar(g, OtherSide(g.ready.worker_id))
            /\ impl = "interval" =>
                  g.kind = "bad" /\ g.qr = <<>> /\ g.bar = <<>>

C9_Witness ==
    /\ impl = "main"
    /\ \E g \in DualGroups :
          /\ BothSidesHaveQr(g)
          /\ g.kind = "good"
          /\ Len(g.qr) > Len(SideQr(g, g.ready.worker_id))

\* C10: when no observation of a two-camera group carries a QR code, the
\* group produces one bad outcome (an empty pack) and no code is sent.
C10_EmptyGroupOneBad ==
    \A g \in DualGroups :
        NoSideHasQr(g) => g.kind = "bad" /\ g.qr = <<>> /\ g.bar = <<>>

C10_Witness ==
    \E g \in DualGroups :
        /\ NoSideHasQr(g)
        /\ \E m, o \in g.members : m.worker_id # o.worker_id
        /\ g.kind = "bad"

(***************************************************************************)
(* The pack validators: CodesCountValidator.get_validated and the          *)
(* per-pack decision of ResultValidator, applied to one pack each.         *)
(***************************************************************************)

\* Bounds of the validator model.
MaxCodes == 2

MaxExpected == 2

\* QR codes a pack may carry: a plain code, the blacklisted host itself and
\* a code that contains it
ValQrCodes == {"qr1a", "xps.tn.ru", "http://xps.tn.ru/1"}

ValBarcodes == {"bar1a", "bar2a"}

SeqsUpTo(S, n) == UNION {[1..k -> S] : k \in 0..n}

FlagSets ==
    [reject_if_less : BOOLEAN, reject_if_more : BOOLEAN,
     replace_if_reject : BOOLEAN]

\* "blacklisted in qr_code" for blacklisted_qrs = ['xps.tn.ru']
ContainsBlacklisted(qr_code) ==
    qr_code \in {"xps.tn.ru", "http://xps.tn.ru/1"}

NotContainsBlacklisted(qr_code) == ~ContainsBlacklisted(qr_code)

\* get_non_blacklisted_qr_codes that removes nothing
keep_all_qr_codes(qrs) == qrs

\* CodesCountValidator._get_non_blacklisted_qr_codes
get_non_blacklisted_qr_codes(qrs) == SelectSeq(qrs, NotContainsBlacklisted)

\* "while len(EAN13) > len(QRCODE): EAN13.pop()"
PopDownTo(ean13, n) == IF Len(ean13) > n THEN SubSeq(ean13, 1, n) ELSE ean13

is_correct_codes_count_less_only(actual_count, expected_count, f) ==
    ~(actual_count < expected_count /\ f.reject_if_less)

\* CodesCountValidator._is_correct_codes_count
is_correct_codes_count(actual_count, expected_count, f) ==
    /\ ~(actual_count > expected_count /\ f.reject_if_more)
    /\ ~(actual_count < expected_count /\ f.reject_if_less)

\* _get_empty_pack that makes one pair whatever is expected
get_empty_pack_single(expected) ==
    [QRCODE |-> <<"">>, EAN13 |-> <<"0000000000000">>,
     is_valid |-> FALSE, expected |-> expected]

\* CodesCountValidator._get_empty_pack
get_empty_pack(expected) ==
    [QRCODE |-> [i \in 1..expected |-> ""],
     EAN13 |-> [i \in 1..expected |-> "0000000000000"],
     is_valid |-> FALSE, expected |-> expected]

\* CodesCountValidator.get_validated
get_validated(pack, f) ==
    LET qrcode == get_non_blacklisted_qr_codes(pack.QRCODE)
        ean13 == PopDownTo(pack.EAN13, Len(qrcode))
        expected_count == pack.expected
        actual_count == Len(qrcode)
        is_valid == is_correct_codes_count(actual_count, expected_count, f)
    IN IF ~is_valid /\ f.replace_if_reject
       THEN get_empty_pack(expected_count)
       ELSE [QRCODE |-> qrcode, EAN13 |-> ean13, is_valid |-> is_valid,
             expected |-> expected_count]

\* the validator is handed the pack
GetValidated ==
    /\ impl = "validator"
    /\ ~validated.done
    /\ LET v == get_validated(pack_data, flags)
       IN validated' = [QRCODE |-> v.QRCODE, EAN13 |-> v.EAN13,
                        is_valid |-> v.is_valid, expected |-> v.expected,
                        done |-> TRUE]
    \* copy.deepcopy: the work is done on a copy of the argument
    /\ pack_data_after' = pack_data
    /\ UNCHANGED <<now, impl, camVars, gateVars, corrVars, kernVars, supVars, refVars, pack_data, flags,
                   rv_validated, codepairs_after>>

\* ResultValidator decides on the pack, whose codes come in pairs
RvGetProcessed ==
    /\ impl = "validator"
    /\ ~rv_validated.done
    /\ Len(pack_data.QRCODE) = Len(pack_data.EAN13)
    /\ LET codepairs == [i \in 1..Len(pack_data.QRCODE) |->
                            [QR |-> pack_data.QRCODE[i],
                             BARCODE |-> pack_data.EAN13[i]]]
           v == ResultValidatorPack(codepairs, pack_data.expected)
       \* "pack.codepairs = [...]" and "pack.codepairs += [...]" work on
       \* the queued pack itself, whose list is the one handed on
       IN /\ rv_validated' = [kind |-> v.kind, codepairs |-> v.codepairs,
                              done |-> TRUE]
          /\ codepairs_after' = v.codepairs
    /\ UNCHANGED <<now, impl, camVars, gateVars, corrVars, kernVars, supVars, refVars, pack_data, flags,
                   validated, pack_data_after>>

InitValidator ==
    /\ now = 0
    /\ impl = "validator"
    /\ is_shutter_open = FALSE
    /\ shutter_close_time = 0
    /\ drops = <<>>
    /\ evq = <<>>
    /\ cmds = <<>>
    /\ bads = <<>>
    /\ results_by_process_id = <<<<>>, <<>>>>
    /\ is_paired = {}
    /\ cam_queue = <<>>
    /\ expected_codes_count = 0
    /\ workmode = "auto"
    /\ cam_last = <<0, 0>>
    /\ next_id = 1
    /\ groups = <<>>
    /\ pack_data \in [QRCODE : SeqsUpTo(ValQrCodes, MaxCodes),
                      EAN13 : SeqsUpTo(ValBarcodes, MaxCodes),
                      expected : 0..MaxExpected]
    /\ flags \in FlagSets
    /\ validated = NotValidated
    /\ rv_validated = RvNotValidated
    /\ pack_data_after = pack_data
    /\ codepairs_after = <<>>
    /\ KernIdle
    /\ SupIdle
    /\ RefIdle
    /\ CamIdle

NextValidator == GetValidated \/ RvGetProcessed

SpecValidator == InitValidator /\ [][NextValidator]_vars

\* C7 (as stated): every pack marked accepted has exactly the expected
\* number of code pairs, whatever the flags.
C7_AcceptedHasExpectedCount ==
    /\ (validated.done /\ validated.is_valid) =>
          Len(validated.QRCODE) = validated.expected
    /\ (rv_validated.done /\ rv_validated.kind = "good") =>
          Len(rv_validated.codepairs) = pack_data.expected

\* C7 (amended): a pack marked accepted by CodesCountValidator has no more
\* QR codes than expected when reject_if_more is set and no fewer when
\* reject_if_less is set (so exactly the expected number only when both are
\* set), and never more barcodes than QR codes; a rejected pack that was
\* replaced has exactly the expected number of placeholder pairs.  A pack
\* marked good by ResultValidator has at least the expected number of pairs,
\* and one marked bad has exactly that number.
C7_AcceptedCountWithinFlags ==
    /\ validated.done =>
          LET n == Len(validated.QRCODE)
              e == validated.expected
          IN /\ validated.is_valid =>
                   /\ flags.reject_if_more => n <= e
                   /\ flags.reject_if_less => n >= e
                   /\ Len(validated.EAN13) <= n
             /\ (~validated.is_valid /\ flags.replace_if_reject) =>
                   n = e /\ Len(validated.EAN13) = e
    /\ rv_validated.done =>
          /\ rv_validated.kind = "good" =>
                Len(rv_validated.codepairs) >= pack_data.expected
          /\ rv_validated.kind = "bad" =>
                Len(rv_validated.codepairs) = pack_data.expected

C7_Witness ==
    /\ validated.done
    /\ validated.is_valid
    /\ ~flags.reject_if_more
    /\ flags.reject_if_less
    /\ Len(validated.QRCODE) > validated.expected
    /\ rv_validated.done
    /\ rv_validated.kind = "good"
    /\ Len(rv_validated.codepairs) > pack_data.expected

\* the number of QR codes of the pack handed in that are not blacklisted
QrLeft ==
    Cardinality({i \in 1..Len(pack_data.QRCODE) :
                    ~ContainsBlacklisted(pack_data.QRCODE[i])})

\* the rejection rule: more than expected and reject_if_more, or fewer than
\* expected and reject_if_less
RejectionRuleFires ==
    \/ QrLeft > pack_data.expected /\ flags.reject_if_more
    \/ QrLeft < pack_data.expected /\ flags.reject_if_less

\* C16: CodesCountValidator rejects a pack if and only if, with n the
\* number of QR codes left after blacklist removal, n > expected and
\* reject_if_more, or n < expected and reject_if_less; a pack with
\* n = expected is accepted.
C16_RejectedIffRuleFires ==
    validated.done =>
        /\ ~validated.is_valid <=> RejectionRuleFires
        /\ QrLeft = pack_data.expected => validated.is_valid

\* a pack with a blacklisted code and one code too many, rejected for the
\* excess alone
C16_Witness ==
    /\ validated.done
    /\ ~validated.is_valid
    /\ flags.reject_if_more
    /\ ~flags.reject_if_less
    /\ QrLeft < Len(pack_data.QRCODE)
    /\ QrLeft > pack_data.expected

\* C17: a rejected pack, with replace_if_reject set, comes back as a
\* synthesized empty pack: exactly expected pairs, every barcode thirteen
\* zeros, no code of the pack handed in, and not accepted.
C17_RejectedReplacedByEmptyPack ==
    (validated.done /\ RejectionRuleFires /\ flags.replace_if_reject) =>
        /\ Len(validated.QRCODE) = pack_data.expected
        /\ Len(validated.EAN13) = pack_data.expected
        /\ \A i \in 1..Len(validated.EAN13) :
              /\ validated.EAN13[i] = "0000000000000"
              /\ \A j \in 1..Len(pack_data.EAN13) :
                    validated.EAN13[i] # pack_data.EAN13[j]
        /\ \A i \in 1..Len(validated.QRCODE) :
              \A j \in 1..Len(pack_data.QRCODE) :
                  validated.QRCODE[i] # pack_data.QRCODE[j]
        /\ ~validated.is_valid

\* a pack with one good code where two are expected, replaced
C17_Witness ==
    /\ validated.done
    /\ RejectionRuleFires
    /\ flags.replace_if_reject
    /\ pack_data.expected = 2
    /\ QrLeft = 1
    /\ pack_data.EAN13 # <<>>
    /\ Len(validated.QRCODE) = 2

\* the code pairs ResultValidator was handed
InputCodePairs ==
    [i \in 1..Len(pack_data.QRCODE) |->
        [QR |-> pack_data.QRCODE[i], BARCODE |-> pack_data.EAN13[i]]]

\* C18: validation is deterministic and pure: a second call with the same
\* pack, expected count and flags returns the same result, and the pack
\* handed in (its QR codes and barcodes) is as it was before the call.
C18_DeterministicAndPure ==
    /\ validated.done =>
          /\ LET v == get_validated(pack_data, flags)
             IN  /\ v.QRCODE = validated.QRCODE
                 /\ v.EAN13 = validated.EAN13
                 /\ v.is_valid = validated.is_valid
                 /\ v.expected = validated.expected
          /\ pack_data_after = pack_data
    /\ rv_validated.done =>
          /\ LET v == ResultValidatorPack(InputCodePairs, pack_data.expected)
             IN  v.kind = rv_validated.kind /\ v.codepairs = rv_validated.codepairs
          /\ codepairs_after = InputCodePairs

(***************************************************************************)
(* Single-camera queue.                                                    *)
(***************************************************************************)

\* the results received so far, in the order they were enqueued
ReceivedSoFar == [i \in 1..Len(groups) |-> groups[i].ready]

\* C11: with one camera, a drain of a queue of results returns one outcome
\* per result, in queue order, and leaves the queue empty; an outcome is
\* good exactly when the result has QR codes and barcodes and as many QR
\* codes as its own expected count, and then carries the result's own QR
\* codes; otherwise it is bad and carries none.  The worker's queue is
\* empty after every handler and its outcomes follow the order of receipt.
C11_InstantOnePerObservation ==
    impl = "instant" =>
        /\ cam_queue = <<>>
        /\ Len(groups) = next_id - 1
        /\ \A i \in 1..Len(groups) : MemberIds(groups[i]) = {i}
        /\ LET q == ReceivedSoFar
               d == instant_get_processed_latest(q)
           IN /\ d.queue = <<>>
              /\ Len(d.out) = Len(q)
              /\ \A i \in 1..Len(q) :
                    /\ d.out[i].members = {q[i]}
                    /\ d.out[i].kind \in {"good", "bad"}
                    /\ d.out[i].kind = "good" <=>
                          /\ q[i].qr_codes # <<>>
                          /\ q[i].barcodes # <<>>
                          /\ Len(q[i].qr_codes) = q[i].expected_codes_count
                    /\ d.out[i].kind = "good" => d.out[i].qr = q[i].qr_codes
                    /\ d.out[i].kind = "bad" => d.out[i].qr = <<>>
                    /\ d.out[i] = groups[i]

C11_Witness ==
    /\ impl = "instant"
    /\ Len(groups) >= 3
    /\ groups[1].kind = "good"
    /\ groups[2].kind = "bad"
    /\ groups[2].ready.qr_codes # <<>>
    /\ groups[3].kind = "good"

---------------------------------------------------------------------------
(* The event kernel: EventProcessor, EventsProcessingQueue and the loops   *)
(* that drive them.  The handler table and the start events are drawn at   *)
(* construction; a handler returns nothing, returns one follow-up event,   *)
(* or raises.                                                              *)

\* handlers registered in an EventProcessor
MaxHandlers == 2
\* start events of a worker, and events fetched by one runner iteration
MaxStart == 2
\* events created in one run
MaxEvents == 4

\* the event classes of src/events.py and their base classes
Kinds == {"BaseEvent", "CamScannerEvent", "EventWithMessage", "TaskError",
          "TaskResult"}

BaseOf(kind) ==
    CASE kind = "CamScannerEvent"  -> "BaseEvent"
      [] kind = "EventWithMessage" -> "CamScannerEvent"
      [] kind = "TaskError"        -> "EventWithMessage"
      [] kind = "TaskResult"       -> "CamScannerEvent"
      [] OTHER                     -> "BaseEvent"

\* isinstance(event, handler_type) of process_event
RECURSIVE isinstance(_, _)
isinstance(kind, handler_type) ==
    \/ kind = handler_type
    \/ kind # "BaseEvent" /\ isinstance(BaseOf(kind), handler_type)

\* the kinds of which events are created
EventKinds == {"CamScannerEvent", "TaskError", "TaskResult"}

\* what a handler does when called
HandlerDoes == {"none", "emit", "raise"}

\* the kind of the follow-up event a handler returns
EmittedKind == "TaskError"

Handler(kind, does) == [kind |-> kind, does |-> does]

HandlerTables ==
    UNION {[1..n -> {Handler(k, d) : k \in Kinds, d \in HandlerDoes}]
           : n \in 1..MaxHandlers}

StartEvents == UNION {[1..n -> EventKinds] : n \in 1..MaxStart}

Event(id, kind) == [id |-> id, kind |-> kind]

\* the handlers from h on, applied to event e in registration order: the
\* handlers called, the events returned before a handler raised, and whether
\* one raised (the exception leaves process_event at once)
RECURSIVE ProcessFrom(_, _, _)
ProcessFrom(table, e, h) ==
    IF h > Len(table)
    THEN [called |-> <<>>, out |-> <<>>, raised |-> FALSE]
    ELSE IF ~isinstance(e.kind, table[h].kind)
    THEN ProcessFrom(table, e, h + 1)
    ELSE IF table[h].does = "raise"
    THEN [called |-> <<h>>, out |-> <<>>, raised |-> TRUE]
    ELSE LET rest == ProcessFrom(table, e, h + 1)
         IN  [called |-> <<h>> \o rest.called,
              out    |-> (IF table[h].does = "emit" THEN <<EmittedKind>>
                          ELSE <<>>) \o rest.out,
              raised |-> rest.raised]

process_event(table, e) == ProcessFrom(table, e, 1)

\* EventsProcessingQueue.add_event with the follow-up events put in front
add_event_front(queue, e) == <<e>> \o queue

\* EventsProcessingQueue.add_event
add_event(queue, e) == Append(queue, e)

RECURSIVE AddEvents(_, _, _)
AddEvents(queue, kinds, id) ==
    IF kinds = <<>> THEN queue
    ELSE AddEvents(add_event(queue, Event(id, Head(kinds))), Tail(kinds), id + 1)

Calls(e, r) == [i \in 1..Len(r.called) |-> [ev |-> e.id, h |-> r.called[i]]]

FaultOf(e, r) ==
    IF r.raised THEN {[ev |-> e.id, h |-> r.called[Len(r.called)]]} ELSE {}

\* the loops that own an EventsProcessingQueue
QueueLoops == {"eventworker", "camworker"}
\* the loops that catch what a handler raises
CatchingLoops == {"camworker", "runner2"}
KernelImpls == QueueLoops \cup {"runner2"}

\* one turn of EventWorker.run_processing (which lets an exception through)
\* or of SingleCameraWorker.run_processing (which logs it and goes on):
\* process_latest pops the front event, the handlers run, and what they
\* returned before an exception is already in the queue
ProcessLatest ==
    /\ impl \in QueueLoops
    /\ loop_state = "running"
    /\ Len(event_queue) > 0
    /\ LET e == Head(event_queue)
           r == process_event(handlers, e)
       IN  /\ next_ev + Len(r.out) - 1 <= MaxEvents
           /\ event_queue' = AddEvents(Tail(event_queue), r.out, next_ev)
           /\ enqueued' = enqueued \o
                  [i \in 1..Len(r.out) |-> Event(next_ev + i - 1, r.out[i])]
           /\ next_ev' = next_ev + Len(r.out)
           /\ taken' = Append(taken, e.id)
           /\ invoked' = invoked \o Calls(e, r)
           /\ faults' = faults \cup FaultOf(e, r)
           /\ loop_state' = IF r.raised /\ impl \notin CatchingLoops
                            THEN "raised" ELSE "running"
    /\ UNCHANGED <<now, impl, camVars, gateVars, corrVars, valVars, supVars, refVars, handlers, lost>>

\* the events of a batch from the i-th on, processed one after the other
\* inside the one try block of mainloop_with_lock
RECURSIVE ProcessBatch(_, _, _)
ProcessBatch(table, batch, i) ==
    IF i > Len(batch)
    THEN [taken |-> <<>>, invoked |-> <<>>, faults |-> {}, lost |-> {}]
    ELSE LET e == batch[i]
             r == process_event(table, e)
         IN  IF r.raised
             THEN [taken   |-> <<e.id>>,
                   invoked |-> Calls(e, r),
                   faults  |-> FaultOf(e, r),
                   lost    |-> {batch[j].id : j \in (i + 1)..Len(batch)}]
             ELSE LET rest == ProcessBatch(table, batch, i + 1)
                  IN  [taken   |-> <<e.id>> \o rest.taken,
                       invoked |-> Calls(e, r) \o rest.invoked,
                       faults  |-> rest.faults,
                       lost    |-> rest.lost]

\* one iteration of RunnerWith2Cameras.mainloop_with_lock: the outcomes of
\* the synchronisation queue and the event read from the cameras make one
\* list, each event of it is handed to process_event, and an exception ends
\* the iteration
RunnerIteration ==
    /\ impl = "runner2"
    /\ loop_state = "running"
    /\ \E ks \in StartEvents :
          /\ next_ev + Len(ks) - 1 <= MaxEvents
          /\ LET batch == [i \in 1..Len(ks) |-> Event(next_ev + i - 1, ks[i])]
                 b == ProcessBatch(handlers, batch, 1)
             IN  /\ next_ev' = next_ev + Len(ks)
                 /\ enqueued' = enqueued \o batch
                 /\ taken' = taken \o b.taken
                 /\ invoked' = invoked \o b.invoked
                 /\ faults' = faults \cup b.faults
                 /\ lost' = lost \cup b.lost
    /\ UNCHANGED <<now, impl, camVars, gateVars, corrVars, valVars, supVars, refVars, handlers,
                   event_queue, loop_state>>

\* the other components, idle
GateIdle ==
    /\ is_shutter_open = FALSE
    /\ shutter_close_time = 0
    /\ drops = <<>>
    /\ evq = <<>>
    /\ cmds = <<>>
    /\ bads = <<>>

CorrIdle ==
    /\ results_by_process_id = <<<<>>, <<>>>>
    /\ is_paired = {}
    /\ cam_queue = <<>>
    /\ expected_codes_count = 0
    /\ workmode = "auto"
    /\ cam_last = <<0, 0>>
    /\ next_id = 1
    /\ groups = <<>>

ValIdle ==
    /\ pack_data = [QRCODE |-> <<>>, EAN13 |-> <<>>, expected |-> 0]
    /\ flags = [reject_if_less |-> TRUE, reject_if_more |-> TRUE,
                replace_if_reject |-> TRUE]
    /\ validated = NotValidated
    /\ rv_validated = RvNotValidated
    /\ pack_data_after = pack_data
    /\ codepairs_after = <<>>

\* the state after construction: set_event_handlers and set_start_events
\* for the workers, _init_event_processor for the runner (whose events come
\* from the cameras while it runs)
InitKernel ==
    /\ now = 0
    /\ impl \in KernelImpls
    /\ GateIdle /\ CorrIdle /\ ValIdle
    /\ handlers \in HandlerTables
    /\ \E ks \in StartEvents :
          LET start == IF impl \in QueueLoops
                       THEN [i \in 1..Len(ks) |-> Event(i, ks[i])]
                       ELSE <<>>
          IN  /\ event_queue = start
              /\ enqueued = start
              /\ next_ev = Len(start) + 1
    /\ taken = <<>>
    /\ invoked = <<>>
    /\ faults = {}
    /\ lost = {}
    /\ loop_state = "running"
    /\ SupIdle
    /\ RefIdle
    /\ CamIdle

NextKernel == ProcessLatest \/ RunnerIteration

SpecKernel == InitKernel /\ [][NextKernel]_vars

\* observers of the kernel
KindOf(id) == (CHOOSE e \in {enqueued[i] : i \in 1..Len(enqueued)} : e.id = id).kind

TakenIds == {taken[i] : i \in 1..Len(taken)}

WasInvoked(id, h) == \E i \in 1..Len(invoked) : invoked[i] = [ev |-> id, h |-> h]

\* C12: in the loops that catch what a handler raises, a handler fault
\* never ends the loop and never keeps an event that was already fetched
\* from being processed: the loop is still running and no fetched event was
\* dropped without being handed to the handlers.
C12_FaultDoesNotStopOrDrop ==
    impl \in CatchingLoops => loop_state = "running" /\ lost = {}

\* C13: when a handler raises for an event, every matching handler
\* registered after it is still invoked for that event.
C13_RemainingHandlersInvoked ==
    \A f \in faults : \A h \in 1..Len(handlers) :
        (h > f.h /\ isinstance(KindOf(f.ev), handlers[h].kind)) =>
            WasInvoked(f.ev, h)

\* C14: the loops that own a queue are FIFO: the events handed to the
\* handlers are, in order, the first events ever queued, the queue holds the
\* remaining ones in the order they were queued (so a follow-up stands behind
\* every event queued before it), and the handler calls follow the order of
\* the events and, for one event, the order of registration.
C14_Fifo ==
    impl \in QueueLoops =>
        /\ Len(taken) <= Len(enqueued)
        /\ \A i \in 1..Len(taken) : taken[i] = enqueued[i].id
        /\ event_queue = SubSeq(enqueued, Len(taken) + 1, Len(enqueued))
        /\ \A i, j \in 1..Len(invoked) :
              i < j =>
                 \/ invoked[i].ev < invoked[j].ev
                 \/ invoked[i].ev = invoked[j].ev /\ invoked[i].h < invoked[j].h
        /\ \A i \in 1..Len(invoked) :
              /\ invoked[i].ev \in TakenIds
              /\ isinstance(KindOf(invoked[i].ev), handlers[invoked[i].h].kind)

\* a follow-up event was processed after the start events, two handlers were
\* called for one event, and another follow-up is waiting
C14_Witness ==
    /\ impl \in QueueLoops
    /\ Len(taken) = MaxStart + 1
    /\ event_queue # <<>>
    /\ \E i \in 1..(Len(invoked) - 1) : invoked[i].ev = invoked[i + 1].ev

\* C15: a handler registered for kind K was invoked for a processed event
\* if and only if the event's kind is K or a specialization of K.
C15_InvokedIffSpecialization ==
    \A id \in TakenIds : \A h \in 1..Len(handlers) :
        WasInvoked(id, h) <=> isinstance(KindOf(id), handlers[h].kind)

---------------------------------------------------------------------------
(* The supervisors of the camera processes: RunnerWith2Cameras and the     *)
(* two camera workers.  Each owns the camera processes and the queue they  *)
(* write to, asks the backend for the expected codes count, stamps every   *)
(* pack it receives and handles the EndScanning of each process.  What     *)
(* becomes of a stamped pack is the matter of the queues above.            *)

\* packs the cameras send in one run
MaxPacks == 2

\* ITERATION_PER_REQUEST of RunnerWith2Cameras._update_expected_codes_count
ITERATION_PER_REQUEST == 15

\* the counts the backend may answer
BackendCounts == {1, 2}

\* get_pack_codes_count returning None
NoCount == 0

SupImpls == {"runner2", "duoworker", "camworker"}

\* worker_id of the camera processes: cameras_args[:1] or two of them
CameraIds == IF impl = "camworker" THEN {0} ELSE {0, 1}

CamEvent(kind, w) == [kind |-> kind, worker_id |-> w]

\* a camera process puts a pack into the queue
CameraSendsPack(w) ==
    /\ impl \in SupImpls
    /\ alive[w]
    /\ ~sent_end[w]
    /\ packs_sent < MaxPacks
    /\ cam_events' = Append(cam_events, CamEvent("CameraPackResult", w))
    /\ packs_sent' = packs_sent + 1
    /\ UNCHANGED <<now, impl, camVars, gateVars, corrVars, valVars, kernVars, refVars, alive,
                   sent_end, fetched, sup_loop, ends_processed, stamps,
                   last_refresh, iter_modcounter>>

\* the video of a camera process is over: it puts its EndScanning
CameraEnds(w) ==
    /\ impl \in SupImpls
    /\ alive[w]
    /\ ~sent_end[w]
    /\ cam_events' = Append(cam_events, CamEvent("EndScanning", w))
    /\ sent_end' = [sent_end EXCEPT ![w] = TRUE]
    /\ UNCHANGED <<now, impl, camVars, gateVars, corrVars, valVars, kernVars, refVars, alive,
                   fetched, sup_loop, ends_processed, stamps, last_refresh,
                   iter_modcounter, packs_sent>>

\* the task of a camera process returns after its last event
CameraExits(w) ==
    /\ impl \in SupImpls
    /\ alive[w]
    /\ sent_end[w]
    /\ alive' = [alive EXCEPT ![w] = FALSE]
    /\ UNCHANGED <<now, impl, camVars, gateVars, corrVars, valVars, kernVars, refVars, sent_end,
                   cam_events, fetched, sup_loop, ends_processed, stamps,
                   last_refresh, iter_modcounter, packs_sent>>

\* the count the supervisors stamp a received pack with: _expected_codes_count
StampOf(refreshed) ==
    [stamped |-> WORKER_EXPECTED_CODES_COUNT, refreshed |-> refreshed]

\* one iteration of RunnerWith2Cameras.mainloop_with_lock:
\* _update_expected_codes_count, then the event read from the cameras goes
\* to _process_camerapackresult or _process_endscanning; the
\* KeyboardInterrupt of the latter is caught by the loop, which breaks
RunnerLoop ==
    /\ impl = "runner2"
    /\ sup_loop = "running"
    /\ \E ans \in BackendCounts \cup {NoCount} :
          LET asked == iter_modcounter = 0
              got == asked /\ ans # NoCount
              refreshed == IF got THEN ans ELSE last_refresh
          IN  /\ expected_codes_count' =
                     IF got THEN ans ELSE expected_codes_count
              /\ last_refresh' = refreshed
              /\ iter_modcounter' =
                     IF asked
                     THEN (iter_modcounter + 1) % ITERATION_PER_REQUEST
                     ELSE iter_modcounter
              /\ IF cam_events = <<>>
                 THEN UNCHANGED <<cam_events, stamps, alive, ends_processed,
                                  sup_loop>>
                 ELSE LET event == Head(cam_events)
                          left == [alive EXCEPT ![event.worker_id] = FALSE]
                      IN  /\ cam_events' = Tail(cam_events)
                          /\ IF event.kind = "CameraPackResult"
                             THEN /\ stamps' = Append(stamps, StampOf(refreshed))
                                  /\ UNCHANGED <<alive, ends_processed,
                                                 sup_loop>>
                             ELSE /\ alive' = left
                                  /\ ends_processed' =
                                         ends_processed \cup {event.worker_id}
                                  /\ sup_loop' =
                                         IF \A w \in CameraIds : ~left[w]
                                         THEN "stopped" ELSE "running"
                                  /\ UNCHANGED stamps
    /\ UNCHANGED <<now, impl, camVars, gateVars, valVars, kernVars, refVars,
                   results_by_process_id, is_paired, cam_queue, workmode,
                   cam_last, next_id, groups, sent_end, fetched, packs_sent>>

\* _process_UpdateExpectedCodesCount of the camera workers, when due
WorkerUpdateExpected ==
    /\ impl \in {"duoworker", "camworker"}
    /\ sup_loop = "running"
    /\ \E ans \in BackendCounts \cup {NoCount} :
          /\ expected_codes_count' =
                 IF ans # NoCount THEN ans ELSE expected_codes_count
          /\ last_refresh' = IF ans # NoCount THEN ans ELSE last_refresh
    /\ UNCHANGED <<now, impl, camVars, gateVars, valVars, kernVars, refVars,
                   results_by_process_id, is_paired, cam_queue, workmode,
                   cam_last, next_id, groups, alive, sent_end, cam_events,
                   fetched, sup_loop, ends_processed, stamps,
                   iter_modcounter, packs_sent>>

\* _process_ReadEventFromProcessQueue / _process_ReadPacksFromQueue: the
\* event read from the cameras is returned and so queued behind the others
WorkerReadEvent ==
    /\ impl \in {"duoworker", "camworker"}
    /\ sup_loop = "running"
    /\ cam_events # <<>>
    /\ fetched' = Append(fetched, Head(cam_events))
    /\ cam_events' = Tail(cam_events)
    /\ UNCHANGED <<now, impl, camVars, gateVars, corrVars, valVars, kernVars, refVars, alive,
                   sent_end, sup_loop, ends_processed, stamps, last_refresh,
                   iter_modcounter, packs_sent>>

\* the worker loop comes to a camera event: _process_CameraPackResult stamps
\* the pack; for an EndScanning no handler is registered (the static
\* _process_EndScanning, which only logs, is not a method for getmembers),
\* and the loop goes on with the events that re-queue themselves
WorkerProcessFetched ==
    /\ impl \in {"duoworker", "camworker"}
    /\ sup_loop = "running"
    /\ fetched # <<>>
    /\ LET event == Head(fetched)
       IN  /\ fetched' = Tail(fetched)
           /\ IF event.kind = "CameraPackResult"
              THEN /\ stamps' = Append(stamps, StampOf(last_refresh))
                   /\ UNCHANGED ends_processed
              ELSE /\ ends_processed' = ends_processed \cup {event.worker_id}
                   /\ UNCHANGED stamps
    /\ UNCHANGED <<now, impl, camVars, gateVars, corrVars, valVars, kernVars, refVars, alive,
                   sent_end, cam_events, sup_loop, last_refresh,
                   iter_modcounter, packs_sent>>

\* the state after construction and _run_processes
InitSupervisor ==
    /\ now = 0
    /\ impl \in SupImpls
    /\ GateIdle /\ CorrIdle /\ ValIdle /\ KernIdle
    /\ alive = [w \in CameraIds |-> TRUE]
    /\ sent_end = [w \in CameraIds |-> FALSE]
    /\ cam_events = <<>>
    /\ fetched = <<>>
    /\ sup_loop = "running"
    /\ ends_processed = {}
    /\ stamps = <<>>
    /\ last_refresh = 0
    /\ iter_modcounter = 0
    /\ packs_sent = 0
    /\ RefIdle
    /\ CamIdle

CameraStep ==
    \E w \in CameraIds : CameraSendsPack(w) \/ CameraEnds(w) \/ CameraExits(w)

NextSupervisor ==
    \/ CameraStep
    \/ RunnerLoop
    \/ WorkerUpdateExpected
    \/ WorkerReadEvent
    \/ WorkerProcessFetched

SpecSupervisor == InitSupervisor /\ [][NextSupervisor]_vars

AllEnded == \A w \in CameraIds : ~alive[w]

\* C19: the loop of a supervisor never stops while a camera process is
\* alive, and once every process has ended and the EndScanning of each has
\* gone through the loop, the loop has stopped.
C19_StopsExactlyWhenAllEnded ==
    impl \in {"runner2", "duoworker"} =>
        /\ sup_loop = "stopped" => AllEnded
        /\ (AllEnded /\ ends_processed = CameraIds) => sup_loop = "stopped"

\* C20: every pack received after a successful refresh is stamped with the
\* count that refresh gave.
C20_StampedWithRefreshedCount ==
    \A i \in 1..Len(stamps) :
        stamps[i].refreshed # NoCount =>
            stamps[i].stamped = stamps[i].refreshed

---------------------------------------------------------------------------
(* The periodic refresh of the expected codes count and of the work mode   *)
(* from the backend: BackendAccessor.update, the state keeper of           *)
(* AsyncMainWorker, and the refresh of the loop of main.py (which has no   *)
(* work mode).  A request either brings a value or fails.                  *)

\* refreshes in one run
MaxRefresh == 3

\* init_codes_count of BackendAccessor (AsyncMainWorker starts from the same)
init_codes_count == 2

WorkModes == {"auto", "manual"}

\* get_mode / get_workmode returning None
NoMode == "None"

RefreshImpls == {"accessor", "asyncworker", "main"}

BackendAnswers ==
    [count : BackendCounts \cup {NoCount}, mode : WorkModes \cup {NoMode}]

\* an assignment made whatever came back
store_always(new, old, none) == new

\* "if new is not None: self.x = new"
store_if_not_none(new, old, none) == IF new # none THEN new ELSE old

\* get_pack_codes_count of main.py: any exception gives back prev_value
get_pack_codes_count(ans, prev_value) ==
    IF ans = NoCount THEN prev_value ELSE ans

\* one turn of BackendAccessor.update: the mode, then the codes count
AccessorUpdate ==
    /\ impl = "accessor"
    /\ refresh_state = "running"
    /\ Len(answers) < MaxRefresh
    /\ \E ans \in BackendAnswers :
          /\ workmode' = store_if_not_none(ans.mode, workmode, NoMode)
          /\ expected_codes_count' =
                 store_if_not_none(ans.count, expected_codes_count, NoCount)
          /\ answers' = Append(answers, ans)
    /\ UNCHANGED <<now, impl, camVars, gateVars, valVars, kernVars, supVars,
                   results_by_process_id, is_paired, cam_queue, cam_last,
                   next_id, groups, refresh_state, iterations>>

\* one turn of AsyncMainWorker._endless_keep_actual_state:
\* _update_codes_count, then _update_workmode
KeepActualState ==
    /\ impl = "asyncworker"
    /\ refresh_state = "running"
    /\ Len(answers) < MaxRefresh
    /\ \E ans \in BackendAnswers :
          /\ expected_codes_count' =
                 store_if_not_none(ans.count, expected_codes_count, NoCount)
          /\ workmode' = store_if_not_none(ans.mode, workmode, NoMode)
          /\ answers' = Append(answers, ans)
    /\ UNCHANGED <<now, impl, camVars, gateVars, valVars, kernVars, supVars,
                   results_by_process_id, is_paired, cam_queue, cam_last,
                   next_id, groups, refresh_state, iterations>>

\* the refresh of run_parent_event_loop, made when iteration_count is 0
MainRefresh ==
    /\ impl = "main"
    /\ refresh_state = "running"
    /\ Len(answers) < MaxRefresh
    /\ \E ans \in BackendAnswers :
          /\ ans.mode = NoMode
          /\ expected_codes_count' =
                 get_pack_codes_count(ans.count, expected_codes_count)
          /\ answers' = Append(answers, ans)
    /\ UNCHANGED <<now, impl, camVars, gateVars, valVars, kernVars, supVars,
                   results_by_process_id, is_paired, cam_queue, workmode,
                   cam_last, next_id, groups, refresh_state, iterations>>

InitRefresh ==
    /\ now = 0
    /\ impl \in RefreshImpls
    /\ GateIdle /\ ValIdle /\ KernIdle /\ SupIdle /\ RefIdle
    /\ CamIdle
    /\ results_by_process_id = <<<<>>, <<>>>>
    /\ is_paired = {}
    /\ cam_queue = <<>>
    /\ expected_codes_count =
           IF impl = "main" THEN MAIN_EXPECTED_CODES_COUNT
           ELSE init_codes_count
    /\ workmode = "auto"
    /\ cam_last = <<0, 0>>
    /\ next_id = 1
    /\ groups = <<>>

NextRefresh == AccessorUpdate \/ KeepActualState \/ MainRefresh

SpecRefresh == InitRefresh /\ [][NextRefresh]_vars

\* the count of the last answer that brought one, the default if none did
RECURSIVE LastGoodCount(_, _)
LastGoodCount(log, default) ==
    IF log = <<>> THEN default
    ELSE IF log[Len(log)].count # NoCount THEN log[Len(log)].count
    ELSE LastGoodCount(SubSeq(log, 1, Len(log) - 1), default)

RECURSIVE LastGoodMode(_, _)
LastGoodMode(log, default) ==
    IF log = <<>> THEN default
    ELSE IF log[Len(log)].mode # NoMode THEN log[Len(log)].mode
    ELSE LastGoodMode(SubSeq(log, 1, Len(log) - 1), default)

\* C21: after any sequence of successful and failed refreshes, the expected
\* codes count and the work mode are those of the last successful refresh,
\* or the initial defaults when none succeeded; they are never empty, and
\* the refresh goes on.
C21_FailedRefreshKeepsLastGood ==
    impl \in RefreshImpls =>
        /\ expected_codes_count =
               LastGoodCount(answers,
                             IF impl = "main" THEN MAIN_EXPECTED_CODES_COUNT
                             ELSE init_codes_count)
        /\ workmode = LastGoodMode(answers, "auto")
        /\ expected_codes_count # NoCount
        /\ workmode # NoMode
        /\ refresh_state = "running"

\* a refresh that brought a count and a mode other than the defaults,
\* followed by two that failed for both
C21_Witness ==
    /\ impl \in RefreshImpls \ {"main"}
    /\ Len(answers) = 3
    /\ answers[1] = [count |-> 1, mode |-> "manual"]
    /\ answers[2] = [count |-> NoCount, mode |-> NoMode]
    /\ answers[3] = [count |-> NoCount, mode |-> NoMode]
    /\ expected_codes_count = 1
    /\ workmode = "manual"

---------------------------------------------------------------------------
(* Further properties of the correlators *)

\* C22: every group taken off the buffers of a two-camera correlator
\* produced one outcome, good or bad, also when it had no counterpart on
\* the other camera or had QR codes and no barcode.
C22_EveryGroupOneOutcome ==
    impl \in {"main", "interval"} =>
        \A i \in 1..Len(groups) : groups[i].kind \in {"good", "bad"}

\* a turn of the loop that drains although no message came: the periodic
\* read of SingleCameraWorker and the idle turn of
\* _endless_handle_queue_events.  main.py goes back to the receive on
\* queue.Empty, and the periodic read of DuoCamerasWorker raises before it
\* drains, so neither has such a turn.
IdleDrain == DrainOnly /\ impl \in {"instant", "resultvalidator"}

\* the correlators with the clock and the loop's own turns going on, and no
\* promise that a camera sends anything
FairCorrelator ==
    /\ InitCorrelator
    /\ [][NextCorrelator]_vars
    /\ WF_vars(CorrTick)
    /\ WF_vars(IdleDrain)

\* C23: whatever is buffered is eventually taken off the buffers with an
\* outcome, even if no further message arrives from the cameras.
C23_BufferedEventuallyOut == Pending ~> ~Pending

---------------------------------------------------------------------------
(* How the outcomes reach the reject gate.  process_video hands the        *)
(* notification to the event loop and goes on (NotifyBadPack at any time); *)
(* AsyncMainWorker awaits _send_codes, and with it the whole _drop_pack,   *)
(* inside the loop that reads the queue of the cameras.                    *)

\* a camera puts a pack that will be found bad into the queue of
\* AsyncMainWorker
AsyncBadArrives ==
    /\ impl = "asyncworker"
    /\ Len(bads) + Len(evq) < MaxBad
    /\ now <= MaxArrive
    /\ evq' = Append(evq, PackBadCodesEv(now))
    /\ UNCHANGED <<now, impl, camVars, is_shutter_open, shutter_close_time, drops, cmds,
                   bads, corrVars, valVars, kernVars, supVars, refVars>>

\* a turn of _endless_handle_queue_events: get_nowait, get_processed_latest,
\* "await self._send_codes(pack)" -> notify_about_bad_pack -> _drop_pack up
\* to its first sleep.  The turn can only start when the one before it has
\* come back from its await.
AsyncSendCodes ==
    /\ impl = "asyncworker"
    /\ evq # <<>>
    /\ drops = <<>>
    /\ evq' = Tail(evq)
    /\ shutter_close_time' = NewCloseTime(now)
    /\ drops' = <<[pc |-> "before", wake |-> now + WAIT_BEFORE_SEC]>>
    /\ bads' = Append(bads, now)
    /\ UNCHANGED <<now, impl, camVars, is_shutter_open, cmds, corrVars, valVars,
                   kernVars, supVars, refVars>>

\* time passes for AsyncMainWorker: not past a due deadline of a sleep, and
\* not while the loop is free and a pack is in the queue (it polls every
\* 0.05 s)
AsyncTick ==
    /\ impl = "asyncworker"
    /\ \A i \in 1..Len(drops) : drops[i].wake > now
    /\ ~(drops = <<>> /\ evq # <<>>)
    /\ now < MaxArrive \/ drops # <<>>
    /\ now' = now + 1
    /\ UNCHANGED <<impl, camVars, is_shutter_open, shutter_close_time, drops, evq, cmds,
                   bads, corrVars, valVars, kernVars, supVars, refVars>>

InitDispatch ==
    /\ now = 0
    /\ impl \in DropImpls
    /\ GateIdle /\ CorrIdle /\ ValIdle /\ KernIdle /\ SupIdle /\ RefIdle
    /\ CamIdle

NextDispatch ==
    \/ NotifyBadPack
    \/ AsyncBadArrives
    \/ AsyncSendCodes
    \/ DropStep
    \/ DropTick
    \/ AsyncTick

SpecDispatch == InitDispatch /\ [][NextDispatch]_vars

\* C24: no pack waits in the queue of the cameras while the gate sequence
\* of an earlier bad pack runs: a pack in the queue has only just arrived,
\* and is taken at the instant it arrived.
C24_NoPackWaitsForGate ==
    impl \in DropImpls =>
        \A i \in 1..Len(evq) : evq[i].time = now

\* C25: the group of a ready result holds every unpaired result of both
\* buffers whose finish_time is within MAX_CAMERAS_DIFF_SEC of the ready
\* result's, the boundary included, and nothing outside that window: no
\* result inside the window of a group is left unpaired in a buffer.
C25_GroupIsTheSkewWindow ==
    impl = "main" =>
        \A i \in 1..Len(groups) :
            /\ \A m \in groups[i].members :
                   Abs(m.finish_time - groups[i].ready.finish_time)
                       <= MAX_CAMERAS_DIFF_SEC
            /\ \A o \in PendingResults :
                   o.id \notin is_paired =>
                       Abs(o.finish_time - groups[i].ready.finish_time)
                           > MAX_CAMERAS_DIFF_SEC

\* the groups a step adds all have a ready result older than the timeout
NewGroupsOverdue ==
    \A i \in (Len(groups) + 1)..Len(groups') :
        now - groups'[i].ready.finish_time > RESULT_TIMEOUT_SEC

\* C26: a group is only made for a result whose age, now - finish_time,
\* is strictly greater than RESULT_TIMEOUT_SEC: every group added by a step
\* has a ready result older than the timeout at the time of the step.
C26_TriggerStrictlyOverdue ==
    [][(impl \in TwoCameraImpls) => NewGroupsOverdue]_vars

\* the results a step takes out of the buffers
RemovedNow == PendingResults \ PendingResults'

\* the groups a step makes
NewGroups == {groups'[i] : i \in (Len(groups) + 1)..Len(groups')}

\* a step of main.py removes only results that are ready (their timeout has
\* run out) and marked paired, before the step or by a group of the step;
\* what is buffered after the step was buffered before it or has just been
\* received, and the result just received is still buffered
RemovesOnlyReadyPaired ==
    /\ \A r \in RemovedNow :
           /\ MainOverdue(now, r.finish_time)
           /\ r.id \in is_paired \/ \E g \in NewGroups : r \in g.members
    /\ \A r \in PendingResults' : r \in PendingResults \/ r.id = next_id
    /\ next_id' # next_id => \E r \in PendingResults' : r.id = next_id

\* C27: a result leaves its buffer at most once, and when it leaves it is
\* marked paired or timed out: what is popped from the front of a buffer is
\* the ready result of the step, never a result that is still pending.
C27_PoppedIsTheReadyResult ==
    [][(impl = "main") => RemovesOnlyReadyPaired]_vars

\* a group of two results has been made and both have left their buffers,
\* one as the ready result of the group, the other already marked paired
C27_Witness ==
    /\ impl = "main"
    /\ \E i \in 1..Len(groups) :
           /\ Cardinality(groups[i].members) >= 2
           /\ groups[i].members \cap PendingResults = {}

---------------------------------------------------------------------------
(* _extract_oldest_group on its own: the queues it can be given.  Packs    *)
(* are enqueued as they end, so the queue is in the order of finish_time;  *)
(* the packs of one camera follow each other in time, those of the two     *)
(* cameras overlap freely.                                                 *)

MaxGroupPacks == 3

MaxGroupTime == 4

\* how long a pack may have been in front of its camera
GroupDurations == {0, 1, 3}

\* a camera ends a pack: Interval2CamerasProcessingQueue.enqueue
EnqueuePack ==
    /\ impl = "extract"
    /\ next_id <= MaxGroupPacks
    /\ \E w \in {0, 1}, dur \in GroupDurations :
         /\ cam_queue' =
                Append(cam_queue,
                       Observation(next_id, w, Max(now - dur, cam_last[w + 1]),
                                   now, <<0, 0>>, WORKER_EXPECTED_CODES_COUNT,
                                   "auto"))
         /\ cam_last' = [cam_last EXCEPT ![w + 1] = now]
    /\ next_id' = next_id + 1
    /\ UNCHANGED <<now, impl, camVars, gateVars, valVars, kernVars, supVars, refVars,
                   results_by_process_id, is_paired, expected_codes_count,
                   workmode, groups>>

\* "packs_group = self._extract_oldest_group(self._queue)": the group is
\* popped from the queue
ExtractGroup ==
    /\ impl = "extract"
    /\ cam_queue # <<>>
    /\ LET packs_group == extract_oldest_group(cam_queue)
       IN /\ cam_queue' = SubSeq(cam_queue, Len(packs_group) + 1, Len(cam_queue))
          /\ groups' = Append(groups, Group(packs_group, cam_queue[1], "group",
                                            <<>>, <<>>, {}))
    /\ UNCHANGED <<now, impl, camVars, gateVars, valVars, kernVars, supVars, refVars,
                   results_by_process_id, is_paired, expected_codes_count,
                   workmode, cam_last, next_id>>

GroupTick ==
    /\ impl = "extract"
    /\ now < MaxGroupTime
    /\ now' = now + 1
    /\ UNCHANGED <<impl, camVars, gateVars, corrVars, valVars, kernVars, supVars, refVars>>

InitOldestGroup ==
    /\ now = 0
    /\ impl = "extract"
    /\ GateIdle /\ CorrIdle /\ ValIdle /\ KernIdle /\ SupIdle /\ RefIdle
    /\ CamIdle

NextOldestGroup == EnqueuePack \/ ExtractGroup \/ GroupTick

SpecOldestGroup == InitOldestGroup /\ [][NextOldestGroup]_vars

\* two packs were in front of the cameras at a common instant
Overlap(p, q) == p.start_time <= q.finish_time /\ q.start_time <= p.finish_time

\* the packs of S and those that overlap one of them
Widen(S, all) == S \cup {p \in all : \E q \in S : Overlap(p, q)}

RECURSIVE ChainFrom(_, _, _)
ChainFrom(S, all, n) == IF n = 0 THEN S ELSE ChainFrom(Widen(S, all), all, n - 1)

\* the packs of the queue whose time overlaps that of the oldest one,
\* directly or through other packs of the queue
OverlapChain(packs) ==
    ChainFrom({packs[1]}, Members(packs), Len(packs))

NotInChain(p) == p \notin OverlapChain(cam_queue)

\* C28: on a queue that is not empty _extract_oldest_group returns a group
\* that is not empty, holds the oldest pack and every pack of the queue
\* whose time overlaps it, directly or through others, and nothing else; it
\* removes exactly these packs and leaves the others in their order.
C28_OldestGroupIsOverlapChain ==
    [][(impl = "extract" /\ Len(groups') > Len(groups)) =>
          /\ Last(groups').members # {}
          /\ cam_queue[1] \in Last(groups').members
          /\ Last(groups').members = OverlapChain(cam_queue)
          /\ cam_queue' = SelectSeq(cam_queue, NotInChain)]_vars

---------------------------------------------------------------------------
(* The periodic events of SingleCameraWorker and DuoCamerasWorker.  Time   *)
(* is counted in half seconds here, the timeout of the read from the       *)
(* cameras being 1.5 s.                                                    *)

MaxCamPacks == 2

MaxWorkerTime == 24

\* _get_event_from_cam: QUEUE_REQUEST_TIMEOUT_SEC = 1.5
QUEUE_REQUEST_TIMEOUT_HALFSEC == 3

\* _process_UpdateExpectedCodesCount: timedelta(seconds=10)
UPDATE_EVERY_HALFSEC == 20

\* _process_ReadResultsFromSyncQueue: timedelta(seconds=8)
READ_EVERY_HALFSEC == 16

PeriodicImpls == {"camworker", "duoworker"}

\* start_events, in their order
PeriodicKinds ==
    <<"UpdateExpectedCodesCount", "ReadEventFromProcessQueue",
      "ReadResultsFromValidationQueue", "Wait">>

\* set_event_handlers keeps the members for which inspect.ismethod holds and
\* whose name starts with _process_: the handlers declared @staticmethod
\* (TaskError, StartScanning, EndScanning, PackBadCodes, OpenGate, CloseGate,
\* Wait) are plain functions and are left out
MethodHandlerKinds ==
    {"CameraPackResult", "UpdateExpectedCodesCount", "PackWithCodes",
     "ReadEventFromProcessQueue", "ReadResultsFromValidationQueue"}

QueuedEvent(kind, due) == [kind |-> kind, due |-> due]

\* what the handler of event e returns at time t: the events to queue, and
\* whether it raised.  new_event is what the cameras gave to the read (or
\* "None"), outcome what the validating queue gave for a pack (or "None").
HandlerResult(e, t, new_event, outcome) ==
    IF e.kind \notin MethodHandlerKinds
    THEN [out |-> <<>>, raised |-> FALSE]
    ELSE IF e.kind = "UpdateExpectedCodesCount"
    THEN [out |-> <<IF t < e.due THEN e
                    ELSE QueuedEvent(e.kind, t + UPDATE_EVERY_HALFSEC)>>,
          raised |-> FALSE]
    ELSE IF e.kind = "ReadEventFromProcessQueue"
    THEN [out |-> <<e>> \o (IF new_event = "None" THEN <<>>
                            ELSE <<QueuedEvent(new_event, 0)>>),
          raised |-> FALSE]
    ELSE IF e.kind = "ReadResultsFromValidationQueue"
    THEN IF t < e.due THEN [out |-> <<e>>, raised |-> FALSE]
         ELSE IF impl = "duoworker"
         \* "results + [event]" with results a generator: TypeError
         THEN [out |-> <<>>, raised |-> TRUE]
         ELSE [out |-> <<QueuedEvent(e.kind, t + READ_EVERY_HALFSEC)>>,
               raised |-> FALSE]
    ELSE IF e.kind = "CameraPackResult"
    THEN [out |-> IF outcome = "None" THEN <<>>
                  ELSE <<QueuedEvent(outcome, 0)>>,
          raised |-> FALSE]
    ELSE [out |-> <<>>, raised |-> FALSE]

\* one turn of run_processing: process_latest pops the first event, the
\* events its handler returns are appended; an exception is logged and the
\* loop goes on.  The read from the cameras returns at once when an event
\* is there and after the timeout otherwise.
WorkerProcessLatest ==
    /\ impl \in PeriodicImpls
    /\ loop_state = "running"
    /\ event_queue # <<>>
    /\ LET e == Head(event_queue)
       IN \E new_event \in {"None", "CameraPackResult"},
             outcome \in {"None", "PackBadCodes", "PackWithCodes"} :
            /\ new_event # "None" =>
                   e.kind = "ReadEventFromProcessQueue" /\ next_ev <= MaxCamPacks
            /\ outcome # "None" => e.kind = "CameraPackResult"
            /\ (e.kind = "CameraPackResult" /\ impl = "camworker") =>
                   outcome # "None"
            /\ LET r == HandlerResult(e, now, new_event, outcome)
                   waited == e.kind = "ReadEventFromProcessQueue"
                             /\ new_event = "None"
               IN /\ waited => now + QUEUE_REQUEST_TIMEOUT_HALFSEC <= MaxWorkerTime
                  /\ now' = IF waited THEN now + QUEUE_REQUEST_TIMEOUT_HALFSEC
                            ELSE now
                  /\ event_queue' = Tail(event_queue) \o r.out
                  /\ faults' = IF r.raised THEN faults \cup {e.kind} ELSE faults
                  /\ lost' = IF r.raised THEN lost \cup {e.kind} ELSE lost
                  /\ next_ev' = IF new_event # "None" THEN next_ev + 1
                                ELSE next_ev
                  /\ loop_state' = IF Tail(event_queue) \o r.out = <<>>
                                   THEN "stopped" ELSE "running"
    /\ UNCHANGED <<impl, camVars, gateVars, corrVars, valVars, supVars, refVars,
                   handlers, enqueued, taken, invoked>>

\* after __init__: set_start_events has queued the start events, whose
\* times are those of the class definition
InitPeriodic ==
    /\ now = 0
    /\ impl \in PeriodicImpls
    /\ GateIdle /\ CorrIdle /\ ValIdle /\ SupIdle /\ RefIdle
    /\ CamIdle
    /\ handlers = <<>>
    /\ event_queue = [i \in 1..Len(PeriodicKinds) |->
                          QueuedEvent(PeriodicKinds[i], 0)]
    /\ enqueued = <<>>
    /\ taken = <<>>
    /\ invoked = <<>>
    /\ faults = {}
    /\ lost = {}
    /\ loop_state = "running"
    /\ next_ev = 1

NextPeriodic == WorkerProcessLatest

SpecPeriodic == InitPeriodic /\ [][NextPeriodic]_vars

InstancesOf(kind) ==
    Cardinality({i \in 1..Len(event_queue) : event_queue[i].kind = kind})

\* C29: in the camera workers exactly one instance of each periodic event
\* is in the queue between two turns of the loop, also after a handler
\* raised, and the loop does not end.
C29_OneOfEachPeriodicEvent ==
    impl \in PeriodicImpls =>
        /\ loop_state = "running"
        /\ \A i \in 1..Len(PeriodicKinds) : InstancesOf(PeriodicKinds[i]) = 1

\* the commands sent to the gate so far are open, close, open, ...
CommandsAlternate ==
    \A i \in 1..Len(cmds) :
        cmds[i].cmd = (IF i % 2 = 1 THEN "open" ELSE "close")

\* C30: whatever the interleaving of the _drop_pack calls in flight, the
\* open and close commands alternate, starting with an open, and the flag
\* is_shutter_open says what the last command was: no open is sent to a
\* gate that is open, no close to a gate that is closed.
C30_OpenCloseAlternate ==
    impl \in DropImpls =>
        /\ CommandsAlternate
        /\ is_shutter_open = (cmds # <<>> /\ Last(cmds).cmd = "open")

\* two _drop_pack calls overlapped: the second started while the first was
\* still in its sleep, found the gate open and did not open it again, the
\* first did not close it, and the second closed it
C30_Witness ==
    /\ impl = "notifier"
    /\ Len(bads) = 2
    /\ bads[1] < bads[2]
    /\ bads[2] < bads[1] + WAIT_BEFORE_SEC
    /\ drops = <<>>
    /\ Len(cmds) = 2
    /\ cmds[1].at = bads[1] + WAIT_BEFORE_SEC
    /\ cmds[2].at = NewCloseTime(bads[2])

\* the turn of the loop is the one that takes a PackBadCodes from the queue
TakesPackBadCodes ==
    /\ impl \in PeriodicImpls
    /\ event_queue # <<>>
    /\ Head(event_queue).kind = "PackBadCodes"
    /\ event_queue' # event_queue

\* C31: a bad outcome received at time t with the gate closed leads to one
\* open command, not before t + the delay before opening: the turn that
\* takes the PackBadCodes queues one OpenGate due at t + GATE_OPEN_AFTER_SEC,
\* which its handler returns unchanged until it is due.
C31_BadOutcomeSchedulesOneOpen ==
    [][TakesPackBadCodes =>
          Cardinality({i \in 1..Len(event_queue') :
                          /\ event_queue'[i].kind = "OpenGate"
                          /\ event_queue'[i].due = now + 2 * GATE_OPEN_AFTER_SEC})
              = 1]_vars

---------------------------------------------------------------------------
(* The refresh of the expected codes count inside the supervisor loops:    *)
(* RunnerWith2Cameras._update_expected_codes_count, called at the head of  *)
(* every turn of mainloop_with_lock, and the head of the loop of           *)
(* run_parent_event_loop in main.py.                                       *)

\* turns of the loop in one run
MaxIterations == 31

LoopImpls == {"runner2", "main"}

\* a request to the backend made in turn number `at` of the loop
Attempt(ans, at) == [count |-> ans, mode |-> NoMode, at |-> at]

\* RunnerWith2Cameras._update_expected_codes_count
RunnerUpdateExpected ==
    /\ impl = "runner2"
    /\ iterations < MaxIterations
    /\ iterations' = iterations + 1
    /\ IF iter_modcounter # 0
       THEN UNCHANGED <<expected_codes_count, answers, iter_modcounter>>
       ELSE /\ \E ans \in BackendCounts \cup {NoCount} :
                  /\ expected_codes_count' =
                         store_if_not_none(ans, expected_codes_count, NoCount)
                  /\ answers' = Append(answers, Attempt(ans, iterations))
            /\ iter_modcounter' = (iter_modcounter + 1) % ITERATION_PER_REQUEST
    /\ UNCHANGED <<now, impl, camVars, gateVars, valVars, kernVars,
                   results_by_process_id, is_paired, cam_queue, workmode,
                   cam_last, next_id, groups, alive, sent_end, cam_events,
                   fetched, sup_loop, ends_processed, stamps, last_refresh,
                   packs_sent, refresh_state>>

\* run_parent_event_loop: "if iteration_count == 0: ...;
\* iteration_count = (iteration_count + 1) % ITERATION_PER_REQUEST"
MainUpdateExpected ==
    /\ impl = "main"
    /\ iterations < MaxIterations
    /\ iterations' = iterations + 1
    /\ IF iter_modcounter # 0
       THEN UNCHANGED <<expected_codes_count, answers>>
       ELSE \E ans \in BackendCounts \cup {NoCount} :
               /\ expected_codes_count' =
                      get_pack_codes_count(ans, expected_codes_count)
               /\ answers' = Append(answers, Attempt(ans, iterations))
    /\ iter_modcounter' = (iter_modcounter + 1) % ITERATION_PER_REQUEST
    /\ UNCHANGED <<now, impl, camVars, gateVars, valVars, kernVars,
                   results_by_process_id, is_paired, cam_queue, workmode,
                   cam_last, next_id, groups, alive, sent_end, cam_events,
                   fetched, sup_loop, ends_processed, stamps, last_refresh,
                   packs_sent, refresh_state>>

InitLoopRefresh ==
    /\ now = 0
    /\ impl \in LoopImpls
    /\ GateIdle /\ ValIdle /\ KernIdle /\ SupIdle /\ RefIdle
    /\ CamIdle
    /\ results_by_process_id = <<<<>>, <<>>>>
    /\ is_paired = {}
    /\ cam_queue = <<>>
    /\ expected_codes_count =
           IF impl = "main" THEN MAIN_EXPECTED_CODES_COUNT
           ELSE WORKER_EXPECTED_CODES_COUNT
    /\ workmode = "auto"
    /\ cam_last = <<0, 0>>
    /\ next_id = 1
    /\ groups = <<>>

NextLoopRefresh == RunnerUpdateExpected \/ MainUpdateExpected

SpecLoopRefresh == InitLoopRefresh /\ [][NextLoopRefresh]_vars

\* the turns of the loop in which the backend was asked
AttemptedAt == {answers[i].at : i \in 1..Len(answers)}

\* C32: the expected codes count is asked from the backend once every
\* ITERATION_PER_REQUEST turns of the loop, as long as the loop runs: for
\* every k, the turn number k * ITERATION_PER_REQUEST (counted from 0) that
\* has been made asked the backend.
C32_RefreshEveryNIterations ==
    impl \in LoopImpls =>
        \A k \in 0..MaxIterations :
            k * ITERATION_PER_REQUEST < iterations =>
                k * ITERATION_PER_REQUEST \in AttemptedAt

\* C33: a hardware command that fails is caught and logged and the gate
\* sequence goes on: no exception leaves the command, is_shutter_open still
\* follows the commands, and once the sequences have ended the last command
\* is the close, sent at the scheduled close time.
C33_CommandFailureIsSwallowed ==
    /\ impl \in DropImpls \cup {"worker"} => lost = {}
    /\ impl \in DropImpls =>
          /\ is_shutter_open = (cmds # <<>> /\ Last(cmds).cmd = "open")
          /\ (drops = <<>> /\ cmds # <<>>) =>
                 /\ Last(cmds).cmd = "close"
                 /\ Last(cmds).at = shutter_close_time

\* the open command of a sequence failed, and the sequence closed the gate
\* at the scheduled time all the same
C33_Witness ==
    /\ impl = "notifier"
    /\ drops = <<>>
    /\ Len(cmds) = 2
    /\ [cmd |-> "open", at |-> cmds[1].at] \in faults
    /\ cmds[2].cmd = "close"
    /\ cmds[2].at = shutter_close_time
    /\ ~is_shutter_open

\* the pairs of the input observation whose QR code is not blacklisted, in
\* the order of the input
KeptPairs == SelectSeq(InputCodePairs, LAMBDA d : ~ContainsBlacklisted(d.QR))

\* the validator returned the pack's own codes, not an empty pack
OwnCodesReturned ==
    /\ validated.done
    /\ validated.QRCODE = get_non_blacklisted_qr_codes(pack_data.QRCODE)

\* C34: blacklist removal removes whole code pairs: for an observation whose
\* codes come in pairs, after validation no QR code matching the blacklist
\* remains and every remaining QR code stands at the position of the barcode
\* it was paired with in the input.
C34_BlacklistRemovesWholePairs ==
    (OwnCodesReturned /\ Len(pack_data.QRCODE) = Len(pack_data.EAN13)) =>
        /\ \A i \in 1..Len(validated.QRCODE) :
              ~ContainsBlacklisted(validated.QRCODE[i])
        /\ Len(validated.EAN13) = Len(KeptPairs)
        /\ \A i \in 1..Len(KeptPairs) :
              /\ validated.QRCODE[i] = KeptPairs[i].QR
              /\ validated.EAN13[i] = KeptPairs[i].BARCODE

\* the n most recent entries of a list kept in reading order
MostRecent(codes, n) == SubSeq(codes, Len(codes) - n + 1, Len(codes))

\* C35: after validation the barcode list has at most len(qr_codes) entries,
\* and when it had to be truncated the barcodes retained are the most
\* recent ones of the input.
C35_TruncationKeepsMostRecent ==
    OwnCodesReturned =>
        /\ Len(validated.EAN13) <= Len(validated.QRCODE)
        /\ Len(pack_data.EAN13) > Len(validated.QRCODE) =>
              validated.EAN13 = MostRecent(pack_data.EAN13, Len(validated.QRCODE))

\* the logged record of a pack that get_processed_latest skipped
IgnoredGroups == {k \in 1..Len(groups) : groups[k].kind = "ignored"}

\* C36: ResultValidator.get_processed_latest discards every buffered
\* observation whose work mode is not 'auto': it produces no outcome
\* (neither good nor bad, no code handed on), it is removed from the buffer
\* by the same drain, and no later drain processes it, whatever the work
\* mode is by then.
C36_NonAutoObservationDiscarded ==
    impl = "resultvalidator" =>
        /\ cam_queue = <<>>
        /\ \A k \in 1..Len(groups) :
              groups[k].ready.workmode # "auto" =>
                  /\ groups[k].kind = "ignored"
                  /\ groups[k].qr = <<>>
                  /\ groups[k].bar = <<>>
                  /\ \A j \in 1..Len(groups) :
                        j # k => MemberIds(groups[j]) \cap MemberIds(groups[k]) = {}

C36_Witness ==
    /\ impl = "resultvalidator"
    /\ workmode = "auto"
    /\ \E k \in IgnoredGroups :
          /\ HasQr(groups[k].ready)
          /\ \E j \in (k + 1)..Len(groups) : groups[j].kind \in {"good", "bad"}

(***************************************************************************)
(* The camera side: get_events_from_video of video_processing.py           *)
(* ("get_events_from_video") and process_video of app/processing.py        *)
(* ("process_video") read frames and emit one record per pack.             *)
(***************************************************************************)

\* Bounds of the camera model.
MaxFrames == 4

MaxFrameCodes == 2

CameraImpls == {"get_events_from_video", "process_video"}

FrameQrCodes == {"qr1a", "qr2a"}

FrameBarcodes == {"bar1a", "bar2a"}

\* process_video: last_barcode = '0' * 13; get_events_from_video:
\* last_correct_barcode = ''
InitialLastBarcode == IF impl = "process_video" THEN "0000000000000" ELSE ""

RECURSIVE dict_fromkeys(_)
\* list(dict.fromkeys(codes)): the first occurrence of each value, in order
dict_fromkeys(codes) ==
    IF codes = <<>> THEN <<>>
    ELSE LET init == dict_fromkeys(SubSeq(codes, 1, Len(codes) - 1))
             last == codes[Len(codes)]
         IN IF \E i \in 1..Len(init) : init[i] = last THEN init
            ELSE Append(init, last)

\* "pack.barcodes.extend([last_correct_barcode] * missing_barcodes_count)" /
\* "while len(EAN13) < len(QRCODE): EAN13.append(last_barcode)"
PadBarcodes(barcodes, n, last) ==
    IF Len(barcodes) < n
    THEN barcodes \o [i \in 1..(n - Len(barcodes)) |-> last]
    ELSE barcodes

\* the pack is in the frame: its codes are added to the record
FrameWithPack ==
    /\ impl \in CameraImpls
    /\ frames < MaxFrames
    /\ \E qr \in SeqsUpTo(FrameQrCodes, MaxFrameCodes),
          bar \in SeqsUpTo(FrameBarcodes, MaxFrameCodes) :
         LET rec == IF is_pack_visible_now THEN record ELSE EmptyRecord
         IN record' = [qr_codes |-> dict_fromkeys(rec.qr_codes \o qr),
                       barcodes |-> dict_fromkeys(rec.barcodes \o bar)]
    /\ is_pack_visible_now' = TRUE
    /\ frames' = frames + 1
    /\ UNCHANGED <<now, impl, gateVars, corrVars, valVars, kernVars, supVars,
                   refVars, last_correct_barcode, yielded>>

\* no pack in the frame: if one was there in the frame before, the record
\* is completed and emitted
FrameWithoutPack ==
    /\ impl \in CameraImpls
    /\ frames < MaxFrames
    /\ IF is_pack_visible_now
       THEN LET last == IF Len(record.barcodes) > 0
                        THEN record.barcodes[Len(record.barcodes)]
                        ELSE last_correct_barcode
                n == Len(record.qr_codes)
                padded == PadBarcodes(record.barcodes, n, last)
                done == [qr_codes |-> record.qr_codes,
                         barcodes |-> IF impl = "process_video"
                                      THEN PopDownTo(padded, n)
                                      ELSE padded]
            IN /\ last_correct_barcode' = last
               /\ yielded' = Append(yielded, done)
               /\ record' = IF impl = "process_video" THEN EmptyRecord ELSE done
       ELSE UNCHANGED <<record, last_correct_barcode, yielded>>
    /\ is_pack_visible_now' = FALSE
    /\ frames' = frames + 1
    /\ UNCHANGED <<now, impl, gateVars, corrVars, valVars, kernVars, supVars,
                   refVars>>

InitCamera ==
    /\ now = 0
    /\ impl \in CameraImpls
    /\ GateIdle /\ CorrIdle /\ ValIdle /\ KernIdle /\ SupIdle /\ RefIdle
    /\ record = EmptyRecord
    /\ is_pack_visible_now = FALSE
    /\ last_correct_barcode = InitialLastBarcode
    /\ yielded = <<>>
    /\ frames = 0

NextCamera == FrameWithPack \/ FrameWithoutPack

SpecCamera == InitCamera /\ [][NextCamera]_vars

NoDuplicates(codes) ==
    \A i, j \in 1..Len(codes) : codes[i] = codes[j] => i = j

\* C37: in every pack observation emitted by a camera, qr_codes holds no
\* value twice and barcodes holds no value twice, for any sequence of
\* frames, packs with fewer barcodes than QR codes included.
C37_NoDuplicateCodes ==
    impl \in CameraImpls =>
        \A k \in 1..Len(yielded) :
            /\ NoDuplicates(yielded[k].qr_codes)
            /\ NoDuplicates(yielded[k].barcodes)

\* the placeholders "empty_<timestamp>", for the instants of the model
EmptyTimestampForms == {"empty_" \o ToString(t) : t \in 0..now}

\* the pairs ResultValidator appended to an incomplete pack
AppendedPairs ==
    LET kept == SelectSeq(InputCodePairs, NotBlacklistedPair)
    IN {rv_validated.codepairs[i] :
            i \in (Len(kept) + 1)..Len(rv_validated.codepairs)}

\* C38: every QR placeholder written into a rejected or incomplete pack is a
\* non-empty string of the form empty_<timestamp>, never the empty string,
\* and each is paired with the barcode placeholder of thirteen zeros.
C38_PlaceholderIsEmptyTimestamp ==
    /\ (validated.done /\ RejectionRuleFires /\ flags.replace_if_reject) =>
          \A i \in 1..Len(validated.QRCODE) :
              /\ validated.QRCODE[i] # ""
              /\ validated.QRCODE[i] \in EmptyTimestampForms
              /\ validated.EAN13[i] = "0000000000000"
    /\ (rv_validated.done /\ rv_validated.kind = "bad") =>
          \A d \in AppendedPairs :
              /\ d.QR # ""
              /\ d.QR \in EmptyTimestampForms
              /\ d.BARCODE = "0000000000000"

=============================================================================
